---- MODULE Spec2Model ----
\* Client / daemon session protocol of plwr: socket file, daemon bootstrap
\* handshake over the daemon's stdout pipe, and the daemon's accept loop.
EXTENDS Integers, Sequences, FiniteSets, TLC

\* ---------------------------------------------------------------- bounds
NumProcs == 2          \* client processes (each may spawn one daemon)
MaxNoise == 1          \* non-sentinel stdout lines a daemon may emit
MaxSels == 2           \* selectors in one wait_any / wait_all command
MaxTimeout == 1        \* largest timeout of a wait command, in sleep intervals

Procs == 1..NumProcs

\* ------------------------------------------------------- protocol (pure)
\* Lines and messages are sequences of tokens; "\n" is the newline token.
READY_SIGNAL == <<"###", " ", "ready">>
ERROR_PREFIX == <<"###", " ", "error", " ">>

\* Command variants: the tags of protocol::Command.
Variants ==
  {"Open", "Reload", "Url", "Wait", "WaitNot", "Click", "Fill", "Press",
   "Exists", "Text", "Attr", "Count", "Eval", "Screenshot", "Tree", "Header",
   "HeaderClear", "Cookie", "CookieList", "CookieClear", "Viewport",
   "InputFiles", "Select", "Hover", "Check", "Uncheck", "Dblclick", "Focus",
   "Blur", "InnerHtml", "InputValue", "ScrollIntoView", "VideoStart",
   "VideoStop", "Stop"}

\* Variant of requires_page: the cookie commands are exempt from the gate too.
requires_page_cookie_exempt(c) ==
  ~(c \in {"Open", "Stop", "Header", "HeaderClear", "Viewport", "Cookie", "CookieList",
           "CookieClear"})

requires_page(c) == ~(c \in {"Open", "Stop", "Header", "HeaderClear", "Viewport"})

NO_PAGE_OPEN == <<"No page open. Use 'plwr open <url>' first.">>

\* protocol::Response {ok, value, error}; Option fields: <<>> is None, <<v>> is
\* Some(v). Error texts are token sequences.
\* Variant of ResponseErr: the failure envelope also carries a value.
ResponseErr_with_value(msg) == [ok |-> FALSE, value |-> <<"null">>, error |-> <<msg>>]

ResponseErr(msg) == [ok |-> FALSE, value |-> <<>>, error |-> <<msg>>]
ResponseOkEmpty == [ok |-> TRUE, value |-> <<>>, error |-> <<>>]
ResponseOkValue(v) == [ok |-> TRUE, value |-> <<v>>, error |-> <<>>]

\* Variant of strip_prefix: the cut is one token early.
strip_prefix_short(line, p) ==
  IF Len(line) >= Len(p) /\ SubSeq(line, 1, Len(p)) = p
  THEN <<SubSeq(line, Len(p), Len(line))>>
  ELSE <<>>

\* Option values: <<>> is None, <<v>> is Some(v).
strip_prefix(line, p) ==
  IF Len(line) >= Len(p) /\ SubSeq(line, 1, Len(p)) = p
  THEN <<SubSeq(line, Len(p) + 1, Len(line))>>
  ELSE <<>>

\* println!: the text followed by a newline, as the lines a line reader sees.
RECURSIVE SplitLines(_)
SplitLines(s) ==
  IF \A i \in 1..Len(s) : s[i] # "\n"
  THEN <<s>>
  ELSE LET k == CHOOSE i \in 1..Len(s) : s[i] = "\n" /\ \A j \in 1..(i - 1) : s[j] # "\n"
       IN <<SubSeq(s, 1, k - 1)>> \o SplitLines(SubSeq(s, k + 1, Len(s)))

Println(s) == SplitLines(s)

\* ------------------------------------------------------ clean_error (pure)
\* str::find / str::rfind on tokens: the index of the first / last occurrence
\* of token t in s, 0 when there is none.
FirstIdx(s, t) ==
  IF \E i \in 1..Len(s) : s[i] = t
  THEN CHOOSE i \in 1..Len(s) : s[i] = t /\ \A j \in 1..(i - 1) : s[j] # t
  ELSE 0

LastIdx(s, t) ==
  IF \E i \in 1..Len(s) : s[i] = t
  THEN CHOOSE i \in 1..Len(s) : s[i] = t /\ \A j \in (i + 1)..Len(s) : s[j] # t
  ELSE 0

\* Option::unwrap_or.
unwrap_or(opt, dflt) == IF opt = <<>> THEN dflt ELSE opt[1]

\* str::lines: split at newline tokens; a final empty line is not produced.
RECURSIVE lines(_)
lines(s) ==
  IF s = <<>> THEN <<>>
  ELSE LET k == FirstIdx(s, "\n")
       IN IF k = 0 THEN <<s>>
          ELSE <<SubSeq(s, 1, k - 1)>> \o lines(SubSeq(s, k + 1, Len(s)))

\* take_while(|l| !l.starts_with("    at ")).
RECURSIVE take_while_not_frame(_)
take_while_not_frame(ls) ==
  IF ls = <<>> \/ (Head(ls) # <<>> /\ Head(ls)[1] = "    at ") THEN <<>>
  ELSE <<Head(ls)>> \o take_while_not_frame(Tail(ls))

\* join("\n").
RECURSIVE join_lines(_)
join_lines(ls) ==
  IF ls = <<>> THEN <<>>
  ELSE IF Len(ls) = 1 THEN ls[1]
  ELSE ls[1] \o <<"\n">> \o join_lines(Tail(ls))

\* str::trim_end.
RECURSIVE trim_end(_)
trim_end(s) ==
  IF s # <<>> /\ s[Len(s)] \in {" ", "\n"} THEN trim_end(SubSeq(s, 1, Len(s) - 1)) ELSE s

\* clean_error, lines 796-800: the last "[selector: ...]" of the raw message.
selector_suffix(msg) ==
  LET i == LastIdx(msg, "[selector: ")
  IN IF i = 0 THEN <<>>
     ELSE LET s == SubSeq(msg, i, Len(msg))
              j == FirstIdx(s, "]")
          IN IF j = 0 THEN <<>> ELSE SubSeq(s, 1, j)

\* clean_error, lines 802-810: cut at " \n ", then drop the stack frames.
strip_stack(msg) ==
  LET k == FirstIdx(msg, " \n ")
      head == IF k = 0 THEN msg ELSE SubSeq(msg, 1, k - 1)
  IN join_lines(take_while_not_frame(lines(head)))

\* clean_error, lines 812-821: the nested prefixes.
strip_prefixes(msg) ==
  LET m1 == unwrap_or(strip_prefix(msg, <<"Protocol error: ">>), msg)
      m2 == unwrap_or(strip_prefix(m1, <<"Protocol error ">>), m1)
      m3 == IF m2 # <<>> /\ m2[1] = "(" /\ FirstIdx(m2, ": ") # 0
            THEN SubSeq(m2, FirstIdx(m2, ": ") + 1, Len(m2))
            ELSE m2
      m4 == unwrap_or(strip_prefix(m3, <<"Error: ">>), m3)
  IN unwrap_or(strip_prefix(m4, <<"strict mode violation: ">>), m4)

HINT ==
  <<"\n", "\n", "Hint: use '>> nth=0' to select the first match, e.g.:", "\n",
    "  plwr <command> \"">>

\* Variant of clean_error: the selector suffix is appended even to a line that
\* already ends with it.
clean_error_always_suffix(e) ==
  LET suffix == selector_suffix(e)
      msg == strip_prefixes(strip_stack(e))
      first_line == trim_end(IF lines(msg) = <<>> THEN msg ELSE lines(msg)[1])
      cleaned == IF suffix = <<>> THEN first_line ELSE first_line \o <<" ">> \o suffix
      sel == IF suffix = <<>> THEN <<"SELECTOR">> ELSE SubSeq(suffix, 2, Len(suffix) - 1)
  IN IF FirstIdx(cleaned, "resolved to") # 0 /\ FirstIdx(cleaned, "elements") # 0
     THEN cleaned \o HINT \o sel \o <<" >> nth=0\"">>
     ELSE cleaned

\* clean_error: the text of an engine error as the client is to see it.
clean_error(e) ==
  LET suffix == selector_suffix(e)
      msg == strip_prefixes(strip_stack(e))
      first_line == trim_end(IF lines(msg) = <<>> THEN msg ELSE lines(msg)[1])
      cleaned == IF suffix = <<>> \/ (first_line # <<>> /\ first_line[Len(first_line)] = "]")
                 THEN first_line
                 ELSE first_line \o <<" ">> \o suffix
      sel == IF suffix = <<>> THEN <<"SELECTOR">> ELSE SubSeq(suffix, 2, Len(suffix) - 1)
  IN IF FirstIdx(cleaned, "resolved to") # 0 /\ FirstIdx(cleaned, "elements") # 0
     THEN cleaned \o HINT \o sel \o <<" >> nth=0\"">>
     ELSE cleaned

\* The raw engine error text handle_command returns in the model: a strict
\* mode violation with its stack frames and selector suffix.
EngineErrs ==
  {<<"Error: ", "strict mode violation: ", "locator", "resolved to", "2", "elements",
     "\n", "    at ", "frame", "[selector: ", "a", "]">>}

\* Inputs: commands the modelled CLI invocations send, engine error texts,
\* and stdout lines that are not written by run() itself.
CmdInputs == {"Open", "Text", "Header", "Malformed"}
ErrMsgs == {<<"boom">>, <<"launch", "\n", "at">>}
NoiseLines == {<<"log">>, <<"###", " ", "ready", "!">>, <<"###", " ", "error">>}

\* ------------------------------------------------------------------ state
VARIABLES
  sockFile,     \* 0: no file at the session's socket path; d: the file is daemon d's socket
  ckind,        \* client process: "idle" | "start" | "send" | "stop"
  cpc,          \* client position
  ccmd,         \* the Command the client sends
  cres,         \* outcome of the invocation
  es_live,      \* ensure_started returned early: was a daemon listening then?
  sd_res,       \* start_daemon result [kind, msg]
  seen,         \* lines start_daemon has read from the pipe
  expired,      \* "no", or how Instant::now() passed the deadline: "silent" when
                \* the daemon had printed no sentinel and was running, else "late"
  childWaited,  \* child.wait() returned
  childKilled,  \* child.kill() called
  spawns,       \* daemons spawned by this client process
  preexisting,  \* socket file start_daemon found at the path (0: none)
  conn,         \* the client's connection
  dpc,          \* daemon position
  pipe,         \* daemon stdout: lines written and not yet read
  noise,        \* non-sentinel lines emitted so far
  sentinels,    \* sentinel lines run() has printed
  page_opened,  \* State.page_opened
  cur,          \* connection the accept loop is servicing (0: none)
  is_stop,      \* is_stop of the request in service
  resp,         \* response computed for the request in service
  backlog,      \* connections waiting in the listener's queue, oldest first
  acceptOrder,  \* history: connections in the order accepted
  respOrder,    \* history: connections in the order their response was written
  wpc,          \* wait handler position: "idle" | "poll" | "check" | "sleep" | "requery" | "done"
  winput,       \* the wait command: [cmd, sels, timeout]
  welapsed,     \* start.elapsed(), in sleep intervals
  page,         \* the page: selector -> "absent" | "hidden" | "visible"
  wloc,         \* locals of the loop: [i, obs, all_visible, missing, req]
  whist,        \* history: [polls, everAll, everVis, allPos]
  wres,         \* what the handler returned: [kind, value, msg]
  hpc,          \* handler position: "boot" | "idle" | "handle" | "count" | "done" | "stopped" | "exited"
  hcmd,         \* the command in handle_command: [cmd, selector, name, value]
  hclock,       \* seconds since the count call was issued
  headers,      \* State.headers
  engHeaders,   \* the extra headers the engine's context holds
  video,        \* State.video
  tmpdir,       \* the capture directory: [exists, raw]
  outFile,      \* the video was written to output_path
  hres,         \* what handle_command returned
  hhist,        \* history: [ref, failed, lastOk, stalled, fin, rm, installed,
                \* again, navFailed]
  console_initialized,  \* State.console_initialized
  pfn,          \* pure function applied: "" or the function's name
  pin,          \* its input
  pout          \* its output

vars == <<sockFile, ckind, cpc, ccmd, cres, es_live, sd_res, seen, expired,
          childWaited, childKilled, spawns, preexisting, conn, dpc, pipe, noise, sentinels,
          page_opened, cur, is_stop, resp, backlog, acceptOrder, respOrder,
          wpc, winput, welapsed, page, wloc, whist, wres,
          hpc, hcmd, hclock, headers, engHeaders, video, tmpdir, outFile, hres, hhist,
          console_initialized, pfn, pin, pout>>

waitVars == <<wpc, winput, welapsed, page, wloc, whist, wres>>

handlerVars == <<hpc, hcmd, hclock, headers, engHeaders, video, tmpdir, outFile, hres,
                 hhist, console_initialized>>

pureVars == <<pfn, pin, pout>>

clientVars == <<ckind, cpc, ccmd, cres, es_live, sd_res, seen, expired,
                childWaited, childKilled, spawns, preexisting>>
daemonVars == <<dpc, pipe, noise, sentinels, page_opened, cur, is_stop, resp,
                backlog, acceptOrder, respOrder>>

\* d: daemon connected to; open: the client's end is open; dclosed: the daemon
\* dropped its end; nresp/got: Response lines written; pageAtGate/handled:
\* page_opened when the request reached the gate, and whether handle_command ran;
\* herr: the raw error handle_command returned for the request, if it did;
\* hadVideo: State.video was Some when the Stop handler took it.
NoConn == [d |-> 0, open |-> FALSE, dclosed |-> FALSE, reqSent |-> FALSE,
           nresp |-> 0, handled |-> FALSE, pageAtGate |-> FALSE, got |-> <<>>,
           herr |-> <<>>, hadVideo |-> FALSE]

NoRes == [kind |-> "none", msg |-> <<>>]

\* Selectors a wait command may name, and the states of what one matches.
Sels == {"a", "b"}
PageStates == {"absent", "hidden", "visible"}
SelLists == UNION {[1..n -> Sels] : n \in 1..MaxSels}

NoInput == [cmd |-> "none", sels |-> <<>>, timeout |-> 0]
\* i: index into selectors; obs: what the engine answered in this iteration;
\* all_visible: the flag of wait_all; missing, req: the re-query of wait_all.
NoLoc == [i |-> 1, obs |-> <<>>, all_visible |-> TRUE, missing |-> <<>>, req |-> <<>>]
\* polls: engine observations made by the loop; everAll: some iteration saw all
\* selectors visible; everVis: some observation was a visible match; allPos:
\* every count so far was above zero.
NoHist == [polls |-> 0, everAll |-> FALSE, everVis |-> FALSE, allPos |-> TRUE]
NoResult == [kind |-> "none", value |-> <<>>, msg |-> <<>>]

Ok(r) == [is_ok |-> TRUE, val |-> r]
Err(e) == [is_ok |-> FALSE, val |-> e]

NoCmd == [cmd |-> "", selector |-> "", name |-> "", value |-> ""]
NoTmp == [exists |-> FALSE, raw |-> FALSE]
NoHHist == [ref |-> <<>>, failed |-> FALSE, lastOk |-> FALSE, stalled |-> FALSE,
            fin |-> "none", rm |-> FALSE, installed |-> FALSE, again |-> FALSE,
            navFailed |-> FALSE]

Init ==
  /\ sockFile = 0
  /\ ckind = [c \in Procs |-> "idle"]
  /\ cpc = [c \in Procs |-> "idle"]
  /\ ccmd = [c \in Procs |-> "Open"]
  /\ cres = [c \in Procs |-> "none"]
  /\ es_live = [c \in Procs |-> TRUE]
  /\ sd_res = [c \in Procs |-> NoRes]
  /\ seen = [c \in Procs |-> <<>>]
  /\ expired = [c \in Procs |-> "no"]
  /\ childWaited = [c \in Procs |-> FALSE]
  /\ childKilled = [c \in Procs |-> FALSE]
  /\ spawns = [c \in Procs |-> 0]
  /\ preexisting = [c \in Procs |-> 0]
  /\ conn = [c \in Procs |-> NoConn]
  /\ dpc = [d \in Procs |-> "none"]
  /\ pipe = [d \in Procs |-> <<>>]
  /\ noise = [d \in Procs |-> 0]
  /\ sentinels = [d \in Procs |-> <<>>]
  /\ page_opened = [d \in Procs |-> FALSE]
  /\ wpc = "idle"
  /\ winput = NoInput
  /\ welapsed = 0
  /\ page = [s \in Sels |-> "absent"]
  /\ wloc = NoLoc
  /\ whist = NoHist
  /\ wres = NoResult
  /\ hpc = "boot"
  /\ hcmd = NoCmd
  /\ hclock = 0
  /\ headers = <<>>
  /\ engHeaders = {}
  /\ video = <<>>
  /\ tmpdir = NoTmp
  /\ outFile = FALSE
  /\ hres = Ok(ResponseOkEmpty)
  /\ hhist = NoHHist
  /\ console_initialized = FALSE
  /\ pfn = ""
  /\ pin = <<>>
  /\ pout = <<>>
  /\ cur = [d \in Procs |-> 0]
  /\ is_stop = [d \in Procs |-> FALSE]
  /\ resp = [d \in Procs |-> ResponseOkEmpty]
  /\ backlog = [d \in Procs |-> <<>>]
  /\ acceptOrder = [d \in Procs |-> <<>>]
  /\ respOrder = [d \in Procs |-> <<>>]

\* Daemon process states.
Dead(d) == dpc[d] \in {"exited", "dead"}
Alive(d) == dpc[d] \notin {"none", "exited", "dead"}
\* The UnixListener exists from bind until run() returns.
Listening(d) == dpc[d] \in {"bound", "accept", "read", "handle", "write", "cleanup"}

\* ---------------------------------------------------------------- client
\* main(): one CLI invocation. `start` goes through start_and_send, `stop`
\* through send_if_running, every other subcommand through send.
Launch(c, kinds) ==
  /\ cpc[c] = "idle"
  /\ \E k \in kinds :
       /\ ckind' = [ckind EXCEPT ![c] = k]
       /\ cpc' = [cpc EXCEPT ![c] = IF k = "start" THEN "ensure" ELSE "connect"]
       /\ \E m \in CmdInputs :
            ccmd' = [ccmd EXCEPT ![c] = CASE k = "start" -> "Open"
                                          [] k = "stop" -> "Stop"
                                          [] OTHER -> m]
  /\ UNCHANGED <<sockFile, cres, es_live, sd_res, seen, expired, childWaited,
                 childKilled, spawns, preexisting, conn>>
  /\ UNCHANGED daemonVars
  /\ UNCHANGED <<waitVars, handlerVars, pureVars>>

\* start_and_send: make sure a daemon is there, then send the command.
start_and_send_next(ok) == IF ok THEN "connect" ELSE "done"

\* ensure_started: socket_path.exists() decides.
ensure_started_running(file) == file # 0

EnsureStarted(c) ==
  /\ cpc[c] = "ensure"
  /\ LET live == sockFile # 0 /\ Listening(sockFile)
     IN IF ensure_started_running(sockFile)
        THEN /\ cpc' = [cpc EXCEPT ![c] = start_and_send_next(TRUE)]
             /\ es_live' = [es_live EXCEPT ![c] = live]
        ELSE /\ cpc' = [cpc EXCEPT ![c] = "sd_remove"]
             /\ UNCHANGED es_live
  /\ UNCHANGED <<sockFile, ckind, ccmd, cres, sd_res, seen, expired, childWaited,
                 childKilled, spawns, preexisting, conn>>
  /\ UNCHANGED daemonVars
  /\ UNCHANGED <<waitVars, handlerVars, pureVars>>

\* Variant: start_daemon leaves an existing socket file in place.
StartDaemonRemove_keep(c) ==
  /\ cpc[c] = "sd_remove"
  /\ preexisting' = [preexisting EXCEPT ![c] = sockFile]
  /\ cpc' = [cpc EXCEPT ![c] = "sd_spawn"]
  /\ UNCHANGED <<sockFile, ckind, ccmd, cres, es_live, sd_res, seen, expired,
                 childWaited, childKilled, spawns, conn>>
  /\ UNCHANGED daemonVars
  /\ UNCHANGED <<waitVars, handlerVars, pureVars>>

\* start_daemon, lines 63-65: remove whatever file is at the socket path.
StartDaemonRemove(c) ==
  /\ cpc[c] = "sd_remove"
  /\ preexisting' = [preexisting EXCEPT ![c] = sockFile]
  /\ sockFile' = 0
  /\ cpc' = [cpc EXCEPT ![c] = "sd_spawn"]
  /\ UNCHANGED <<ckind, ccmd, cres, es_live, sd_res, seen, expired, childWaited,
                 childKilled, spawns, conn>>
  /\ UNCHANGED daemonVars
  /\ UNCHANGED <<waitVars, handlerVars, pureVars>>

\* start_daemon, lines 84-90: spawn the daemon with stdout piped.
StartDaemonSpawn(c) ==
  /\ cpc[c] = "sd_spawn"
  /\ \/ /\ dpc' = [dpc EXCEPT ![c] = "init"]
        /\ spawns' = [spawns EXCEPT ![c] = @ + 1]
        /\ cpc' = [cpc EXCEPT ![c] = "sd_read"]
        /\ UNCHANGED <<sd_res, cres>>
     \/ /\ sd_res' = [sd_res EXCEPT ![c] = [kind |-> "spawn_failed", msg |-> <<>>]]
        /\ cres' = [cres EXCEPT ![c] = "boot_err"]
        /\ cpc' = [cpc EXCEPT ![c] = start_and_send_next(FALSE)]
        /\ UNCHANGED <<dpc, spawns>>
  /\ UNCHANGED <<sockFile, ckind, ccmd, es_live, seen, expired, childWaited,
                 childKilled, preexisting, conn>>
  /\ UNCHANGED <<pipe, noise, sentinels, page_opened, cur, is_stop, resp, backlog,
                 acceptOrder, respOrder>>
  /\ UNCHANGED <<waitVars, handlerVars, pureVars>>

\* Instant::now() passes the deadline while start_daemon is in its read loop.
DeadlineExpires(c) ==
  /\ cpc[c] = "sd_read"
  /\ expired[c] = "no"
  /\ expired' = [expired EXCEPT ![c] = IF sentinels[c] = <<>> /\ ~Dead(c) THEN "silent"
                                                                        ELSE "late"]
  /\ UNCHANGED <<sockFile, ckind, cpc, ccmd, cres, es_live, sd_res, seen,
                 childWaited, childKilled, spawns, preexisting, conn>>
  /\ UNCHANGED daemonVars
  /\ UNCHANGED <<waitVars, handlerVars, pureVars>>

\* Variant of line_outcome: the ready line is matched by prefix.
line_outcome_ready_prefix(line, late) ==
  IF late THEN [kind |-> "timeout", msg |-> <<>>]
  ELSE IF strip_prefix(line, READY_SIGNAL) # <<>> THEN [kind |-> "ok", msg |-> <<>>]
  ELSE IF strip_prefix(line, ERROR_PREFIX) # <<>>
       THEN [kind |-> "error", msg |-> strip_prefix(line, ERROR_PREFIX)[1]]
  ELSE [kind |-> "continue", msg |-> <<>>]

\* What one iteration of `for line in reader.lines()` decides for a line.
line_outcome(line, late) ==
  IF late THEN [kind |-> "timeout", msg |-> <<>>]
  ELSE IF line = READY_SIGNAL THEN [kind |-> "ok", msg |-> <<>>]
  ELSE IF strip_prefix(line, ERROR_PREFIX) # <<>>
       THEN [kind |-> "error", msg |-> strip_prefix(line, ERROR_PREFIX)[1]]
  ELSE [kind |-> "continue", msg |-> <<>>]

\* start_daemon, lines 92-109: one line arrives on the pipe.
StartDaemonReadLine(c) ==
  /\ cpc[c] = "sd_read"
  /\ pipe[c] # <<>>
  /\ LET line == Head(pipe[c])
         out == line_outcome(line, expired[c] # "no")
     IN /\ pipe' = [pipe EXCEPT ![c] = Tail(@)]
        /\ seen' = [seen EXCEPT ![c] = Append(@, line)]
        /\ CASE out.kind = "timeout" ->
                  /\ childKilled' = [childKilled EXCEPT ![c] = TRUE]
                  /\ dpc' = [dpc EXCEPT ![c] = IF Dead(c) THEN @ ELSE "dead"]
                  /\ sd_res' = [sd_res EXCEPT ![c] = out]
                  /\ cres' = [cres EXCEPT ![c] = "boot_err"]
                  /\ cpc' = [cpc EXCEPT ![c] = start_and_send_next(FALSE)]
             [] out.kind = "ok" ->
                  /\ sd_res' = [sd_res EXCEPT ![c] = out]
                  /\ cpc' = [cpc EXCEPT ![c] = start_and_send_next(TRUE)]
                  /\ UNCHANGED <<childKilled, dpc, cres>>
             [] out.kind = "error" ->
                  /\ sd_res' = [sd_res EXCEPT ![c] = out]
                  /\ cpc' = [cpc EXCEPT ![c] = "sd_wait"]
                  /\ UNCHANGED <<childKilled, dpc, cres>>
             [] OTHER ->
                  UNCHANGED <<childKilled, dpc, sd_res, cres, cpc>>
  /\ UNCHANGED <<sockFile, ckind, ccmd, es_live, expired, childWaited, spawns,
                 preexisting, conn>>
  /\ UNCHANGED <<noise, sentinels, page_opened, cur, is_stop, resp, backlog,
                 acceptOrder, respOrder>>
  /\ UNCHANGED <<waitVars, handlerVars, pureVars>>

\* Variant of StartDaemonEOF: falling out of the loop returns Ok.
StartDaemonEOF_ok(c) ==
  /\ cpc[c] = "sd_read"
  /\ pipe[c] = <<>>
  /\ Dead(c)
  /\ sd_res' = [sd_res EXCEPT ![c] = [kind |-> "ok", msg |-> <<>>]]
  /\ cpc' = [cpc EXCEPT ![c] = start_and_send_next(TRUE)]
  /\ UNCHANGED <<sockFile, ckind, ccmd, cres, es_live, seen, expired, childWaited,
                 childKilled, spawns, preexisting, conn>>
  /\ UNCHANGED daemonVars
  /\ UNCHANGED <<waitVars, handlerVars, pureVars>>

\* start_daemon, lines 109-112: the pipe is at end of stream.
StartDaemonEOF(c) ==
  /\ cpc[c] = "sd_read"
  /\ pipe[c] = <<>>
  /\ Dead(c)
  /\ sd_res' = [sd_res EXCEPT ![c] = [kind |-> "exited", msg |-> <<>>]]
  /\ cpc' = [cpc EXCEPT ![c] = "sd_wait"]
  /\ UNCHANGED <<sockFile, ckind, ccmd, cres, es_live, seen, expired, childWaited,
                 childKilled, spawns, preexisting, conn>>
  /\ UNCHANGED daemonVars
  /\ UNCHANGED <<waitVars, handlerVars, pureVars>>

\* child.wait() returns once the child has exited; then start_daemon bails.
StartDaemonWait(c) ==
  /\ cpc[c] = "sd_wait"
  /\ Dead(c)
  /\ childWaited' = [childWaited EXCEPT ![c] = TRUE]
  /\ cres' = [cres EXCEPT ![c] = "boot_err"]
  /\ cpc' = [cpc EXCEPT ![c] = start_and_send_next(FALSE)]
  /\ UNCHANGED <<sockFile, ckind, ccmd, es_live, sd_res, seen, expired,
                 childKilled, spawns, preexisting, conn>>
  /\ UNCHANGED daemonVars
  /\ UNCHANGED <<waitVars, handlerVars, pureVars>>

\* UnixStream::connect: succeeds iff the path names the socket of a listener.
Connectable(file) == file # 0 /\ Listening(file)

\* Variant of connect_failed_next: stop bootstraps a daemon to stop it.
connect_failed_next_stop(kind) == IF kind = "stop" THEN "sd_remove" ELSE "done"

\* Variant of connect_failed_next: send bootstraps a daemon and retries.
connect_failed_next_bootstrap(kind) == IF kind = "send" THEN "sd_remove" ELSE "done"

\* send, lines 28-32: a failed connect is an error; nothing is spawned.
connect_failed_next(kind) == "done"

\* send / send_if_running, the connect step.
Connect(c) ==
  /\ cpc[c] = "connect"
  /\ IF Connectable(sockFile)
     THEN /\ conn' = [conn EXCEPT ![c] = [NoConn EXCEPT !.d = sockFile, !.open = TRUE]]
          /\ backlog' = [backlog EXCEPT ![sockFile] = Append(@, c)]
          /\ cpc' = [cpc EXCEPT ![c] = "write"]
          /\ UNCHANGED cres
     ELSE /\ cres' = [cres EXCEPT ![c] = IF ckind[c] = "stop" THEN "not_running"
                                                             ELSE "no_session"]
          /\ cpc' = [cpc EXCEPT ![c] = connect_failed_next(ckind[c])]
          /\ UNCHANGED <<conn, backlog>>
  /\ UNCHANGED <<sockFile, ckind, ccmd, es_live, sd_res, seen, expired, childWaited,
                 childKilled, spawns, preexisting>>
  /\ UNCHANGED <<dpc, pipe, noise, sentinels, page_opened, cur, is_stop, resp,
                 acceptOrder, respOrder>>
  /\ UNCHANGED <<waitVars, handlerVars, pureVars>>

\* main, lines 290-324 and 375-401: the exit code of the CLI process, from the
\* command it ran and what the client function returned.
\* Variant of exit_code: a boolean false value does not change the exit code.
exit_code_ignores_value(kind, r) ==
  IF ~r.is_ok THEN 1
  ELSE IF kind = "stop" THEN 0
  ELSE IF r.val.ok THEN 0 ELSE 1

\* main: the exit code for what the exchange returned. r is the Result of
\* start_and_send ("start"), send_if_running ("stop": the value is an Option)
\* or send (every other command); a JSON value is its text, Bool(false) "false".
exit_code(kind, r) ==
  IF ~r.is_ok THEN 1
  ELSE IF kind = "stop" THEN 0
  ELSE IF r.val.ok /\ (kind = "start" \/ r.val.value # <<"false">>) THEN 0 ELSE 1

\* The daemon's end of the client's connection is gone.
PeerGone(c) == conn[c].dclosed \/ Dead(conn[c].d)

\* send_on_stream, lines 49-52: write the framed Request.
WriteRequest(c) ==
  /\ cpc[c] = "write"
  /\ IF PeerGone(c)
     THEN /\ conn' = [conn EXCEPT ![c].open = FALSE]
          /\ cres' = [cres EXCEPT ![c] = "transport_err"]
          /\ cpc' = [cpc EXCEPT ![c] = "done"]
     ELSE /\ conn' = [conn EXCEPT ![c].reqSent = TRUE]
          /\ cpc' = [cpc EXCEPT ![c] = "read"]
          /\ UNCHANGED cres
  /\ UNCHANGED <<sockFile, ckind, ccmd, es_live, sd_res, seen, expired, childWaited,
                 childKilled, spawns, preexisting>>
  /\ UNCHANGED daemonVars
  /\ UNCHANGED <<waitVars, handlerVars, pureVars>>

\* send_on_stream, lines 54-59: read one line and decode it as a Response.
ReadResponse(c) ==
  /\ cpc[c] = "read"
  /\ \/ /\ conn[c].got # <<>>
        /\ cres' = [cres EXCEPT ![c] = IF conn[c].got[1].ok THEN "ok" ELSE "resp_err"]
     \/ /\ conn[c].got = <<>>
        /\ PeerGone(c)
        /\ cres' = [cres EXCEPT ![c] = "transport_err"]
  /\ conn' = [conn EXCEPT ![c].open = FALSE]
  /\ cpc' = [cpc EXCEPT ![c] = "done"]
  /\ UNCHANGED <<sockFile, ckind, ccmd, es_live, sd_res, seen, expired, childWaited,
                 childKilled, spawns, preexisting>>
  /\ UNCHANGED daemonVars
  /\ UNCHANGED <<waitVars, handlerVars, pureVars>>

\* The client process is killed while its connection is open.
ClientKilled(c) ==
  /\ cpc[c] \in {"write", "read"}
  /\ conn' = [conn EXCEPT ![c].open = FALSE]
  /\ cres' = [cres EXCEPT ![c] = "killed"]
  /\ cpc' = [cpc EXCEPT ![c] = "done"]
  /\ UNCHANGED <<sockFile, ckind, ccmd, es_live, sd_res, seen, expired, childWaited,
                 childKilled, spawns, preexisting>>
  /\ UNCHANGED daemonVars
  /\ UNCHANGED <<waitVars, handlerVars, pureVars>>

\* ---------------------------------------------------------------- daemon
\* run, lines 61-63: remove an existing socket file; `?` on failure.
RunRemoveSocket(d) ==
  /\ dpc[d] = "init"
  /\ \/ /\ sockFile' = 0
        /\ dpc' = [dpc EXCEPT ![d] = "launch"]
     \/ /\ sockFile # 0
        /\ dpc' = [dpc EXCEPT ![d] = "failing"]
        /\ UNCHANGED sockFile
  /\ UNCHANGED clientVars
  /\ UNCHANGED <<conn, pipe, noise, sentinels, page_opened, cur, is_stop, resp,
                 backlog, acceptOrder, respOrder>>
  /\ UNCHANGED <<waitVars, handlerVars, pureVars>>

\* run, lines 65-144: engine, browser, video directory, context and page.
RunLaunch(d) ==
  /\ dpc[d] = "launch"
  /\ \/ /\ dpc' = [dpc EXCEPT ![d] = "bind"]
        /\ UNCHANGED <<pipe, sentinels>>
     \/ \E m \in ErrMsgs :
          /\ pipe' = [pipe EXCEPT ![d] = @ \o Println(ERROR_PREFIX \o m)]
          /\ sentinels' = [sentinels EXCEPT ![d] = Append(@, "error")]
          /\ dpc' = [dpc EXCEPT ![d] = "failing"]
     \/ /\ dpc' = [dpc EXCEPT ![d] = "failing"]
        /\ UNCHANGED <<pipe, sentinels>>
  /\ UNCHANGED clientVars
  /\ UNCHANGED <<sockFile, conn, noise, page_opened, cur, is_stop, resp, backlog,
                 acceptOrder, respOrder>>
  /\ UNCHANGED <<waitVars, handlerVars, pureVars>>

\* run, lines 145-151: UnixListener::bind fails when the path exists.
RunBind(d) ==
  /\ dpc[d] = "bind"
  /\ IF sockFile = 0
     THEN /\ sockFile' = d
          /\ dpc' = [dpc EXCEPT ![d] = "bound"]
          /\ UNCHANGED <<pipe, sentinels>>
     ELSE /\ pipe' = [pipe EXCEPT ![d] = @ \o Println(ERROR_PREFIX \o <<"in use">>)]
          /\ sentinels' = [sentinels EXCEPT ![d] = Append(@, "error")]
          /\ dpc' = [dpc EXCEPT ![d] = "failing"]
          /\ UNCHANGED sockFile
  /\ UNCHANGED clientVars
  /\ UNCHANGED <<conn, noise, page_opened, cur, is_stop, resp, backlog,
                 acceptOrder, respOrder>>
  /\ UNCHANGED <<waitVars, handlerVars, pureVars>>

\* Variant of RunReady: the ready line is printed before the socket is bound.
RunReady_before_bind(d) ==
  /\ dpc[d] = "bind"
  /\ sentinels[d] = <<>>
  /\ pipe' = [pipe EXCEPT ![d] = @ \o Println(READY_SIGNAL)]
  /\ sentinels' = [sentinels EXCEPT ![d] = Append(@, "ready")]
  /\ page_opened' = [page_opened EXCEPT ![d] = FALSE]
  /\ UNCHANGED clientVars
  /\ UNCHANGED <<sockFile, conn, dpc, noise, cur, is_stop, resp, backlog,
                 acceptOrder, respOrder>>
  /\ UNCHANGED <<waitVars, handlerVars, pureVars>>

\* run, lines 153-162: print the ready sentinel, build State.
RunReady(d) ==
  /\ dpc[d] = "bound"
  /\ pipe' = [pipe EXCEPT ![d] = @ \o Println(READY_SIGNAL)]
  /\ sentinels' = [sentinels EXCEPT ![d] = Append(@, "ready")]
  /\ page_opened' = [page_opened EXCEPT ![d] = FALSE]
  /\ dpc' = [dpc EXCEPT ![d] = "accept"]
  /\ UNCHANGED clientVars
  /\ UNCHANGED <<sockFile, conn, noise, cur, is_stop, resp, backlog,
                 acceptOrder, respOrder>>
  /\ UNCHANGED <<waitVars, handlerVars, pureVars>>

\* Something other than run() writes a line to the daemon's stdout.
EmitNoise(d) ==
  /\ Alive(d)
  /\ cpc[d] = "sd_read"
  /\ noise[d] < MaxNoise
  /\ \E l \in NoiseLines : pipe' = [pipe EXCEPT ![d] = Append(@, l)]
  /\ noise' = [noise EXCEPT ![d] = @ + 1]
  /\ UNCHANGED clientVars
  /\ UNCHANGED <<sockFile, conn, dpc, sentinels, page_opened, cur, is_stop, resp,
                 backlog, acceptOrder, respOrder>>
  /\ UNCHANGED <<waitVars, handlerVars, pureVars>>

\* Variant of MainRunFailed: main exits without removing the socket file.
MainRunFailed_keeps_file(d) ==
  /\ dpc[d] = "failing"
  /\ dpc' = [dpc EXCEPT ![d] = "exited"]
  /\ UNCHANGED clientVars
  /\ UNCHANGED <<sockFile, conn, pipe, noise, sentinels, page_opened, cur, is_stop, resp,
                 backlog, acceptOrder, respOrder>>
  /\ UNCHANGED <<waitVars, handlerVars, pureVars>>

\* main, lines 280-287: run returned Err; remove the socket file and exit.
MainRunFailed(d) ==
  /\ dpc[d] = "failing"
  /\ sockFile' = 0
  /\ dpc' = [dpc EXCEPT ![d] = "exited"]
  /\ UNCHANGED clientVars
  /\ UNCHANGED <<conn, pipe, noise, sentinels, page_opened, cur, is_stop, resp,
                 backlog, acceptOrder, respOrder>>
  /\ UNCHANGED <<waitVars, handlerVars, pureVars>>

\* The daemon process dies without running any cleanup.
DaemonCrash(d) ==
  /\ Alive(d)
  /\ dpc' = [dpc EXCEPT ![d] = "dead"]
  /\ UNCHANGED clientVars
  /\ UNCHANGED <<sockFile, conn, pipe, noise, sentinels, page_opened, cur, is_stop,
                 resp, backlog, acceptOrder, respOrder>>
  /\ UNCHANGED <<waitVars, handlerVars, pureVars>>

\* ----------------------------------------------------------- accept loop
\* run, line 165: accept the oldest pending connection.
\* Variant of accept_ready: accepting while a connection is still in service,
\* as a task-per-connection loop would.
accept_ready_concurrent(d) == dpc[d] \in {"accept", "read", "handle", "write"}

accept_ready(d) == dpc[d] = "accept"

Accept(d) ==
  /\ accept_ready(d)
  /\ Listening(d)
  /\ backlog[d] # <<>>
  /\ cur' = [cur EXCEPT ![d] = Head(backlog[d])]
  /\ backlog' = [backlog EXCEPT ![d] = Tail(@)]
  /\ acceptOrder' = [acceptOrder EXCEPT ![d] = Append(@, Head(backlog[d]))]
  /\ dpc' = [dpc EXCEPT ![d] = "read"]
  /\ UNCHANGED clientVars
  /\ UNCHANGED <<sockFile, conn, pipe, noise, sentinels, page_opened, is_stop, resp,
                 respOrder>>
  /\ UNCHANGED <<waitVars, handlerVars, pureVars>>

\* run, line 165: accept() itself fails; `?` leaves run with Err.
AcceptFail(d) ==
  /\ dpc[d] = "accept"
  /\ dpc' = [dpc EXCEPT ![d] = "failing"]
  /\ UNCHANGED clientVars
  /\ UNCHANGED <<sockFile, conn, pipe, noise, sentinels, page_opened, cur, is_stop,
                 resp, backlog, acceptOrder, respOrder>>
  /\ UNCHANGED <<waitVars, handlerVars, pureVars>>

\* serde_json::from_str::<Request>: the line is a Request document.
decodes(line) == line \in Variants

\* Variant of gate_rejects: the gate is missing.
gate_rejects_absent(opened, cmd) == FALSE

\* The precondition gate of run, line 175.
gate_rejects(opened, cmd) == ~opened /\ requires_page(cmd)

\* run, lines 168-177: read one line, decode the Request, check the gate.
ReadRequest(d) ==
  /\ dpc[d] = "read"
  /\ LET c == cur[d]
     IN \/ /\ conn[c].reqSent
           /\ decodes(ccmd[c])
           /\ is_stop' = [is_stop EXCEPT ![d] = (ccmd[c] = "Stop")]
           /\ IF gate_rejects(page_opened[d], ccmd[c])
              THEN /\ resp' = [resp EXCEPT ![d] = ResponseErr(NO_PAGE_OPEN)]
                   /\ dpc' = [dpc EXCEPT ![d] = "write"]
                   /\ conn' = [conn EXCEPT ![c].pageAtGate = page_opened[d]]
              ELSE /\ conn' = [conn EXCEPT ![c].handled = TRUE,
                                           ![c].pageAtGate = page_opened[d]]
                   /\ dpc' = [dpc EXCEPT ![d] = "handle"]
                   /\ UNCHANGED resp
           /\ UNCHANGED cur
        \/ /\ \/ conn[c].reqSent /\ ~decodes(ccmd[c])
              \/ ~conn[c].reqSent /\ ~conn[c].open
           /\ conn' = [conn EXCEPT ![c].dclosed = TRUE]
           /\ cur' = [cur EXCEPT ![d] = 0]
           /\ dpc' = [dpc EXCEPT ![d] = "accept"]
           /\ UNCHANGED <<is_stop, resp>>
  /\ UNCHANGED clientVars
  /\ UNCHANGED <<sockFile, pipe, noise, sentinels, page_opened, backlog,
                 acceptOrder, respOrder>>
  /\ UNCHANGED <<waitVars, handlerVars, pureVars>>

\* handle_command's Ok response for the modelled commands: Text answers with
\* a value, Open / Header / Stop with the empty envelope.
handler_ok(cmd) == IF cmd = "Text" THEN ResponseOkValue("text") ELSE ResponseOkEmpty

\* Whether the handler has a fallible step: every modelled command awaits the
\* engine, Stop only when it has a video to finalize (lines 287-314).
handler_can_fail(cmd, vid) == cmd # "Stop" \/ vid

\* The ffmpeg branch of Stop, line 309: an Ok(Response::err(..)).
FFMPEG_FAILED == <<"ffmpeg exited with ", "exit status: 1">>

\* Variant of dispatch: the raw error text is sent as it is.
dispatch_raw(res) ==
  IF res.is_ok THEN res.val ELSE ResponseErr(res.val)

\* run, lines 178-180: handle_command(..).await.unwrap_or_else(|e|
\* Response::err(clean_error(e))); res is Ok(Response) or Err(text).
dispatch(res) ==
  IF res.is_ok THEN res.val ELSE ResponseErr(clean_error(res.val))

\* Variant of opens_page: every command that succeeds marks the page open.
opens_page_any(cmd) == TRUE

\* handle_command, line 223: state.page_opened = true is in the Open arm alone,
\* after goto returned Ok.
opens_page(cmd) == cmd = "Open"

\* run, lines 178-180 with handle_command: the handler runs to its result and
\* the result becomes the Response to write. State.video (set from PLWR_VIDEO
\* when run starts) is read by Stop alone, at line 287: whether the session
\* records a video is drawn there.
HandleCommand(d) ==
  /\ dpc[d] = "handle"
  /\ LET c == cur[d]
         cmd == ccmd[c]
     IN \E vid \in (IF cmd = "Stop" THEN BOOLEAN ELSE {FALSE}) :
          \/ /\ resp' = [resp EXCEPT ![d] =
                           dispatch([is_ok |-> TRUE, val |-> handler_ok(cmd)])]
             /\ page_opened' = [page_opened EXCEPT ![d] = IF opens_page(cmd) THEN TRUE ELSE @]
             /\ conn' = [conn EXCEPT ![c].hadVideo = vid]
          \/ /\ handler_can_fail(cmd, vid)
             /\ \E e \in EngineErrs :
                  /\ resp' = [resp EXCEPT ![d] = dispatch([is_ok |-> FALSE, val |-> e])]
                  /\ conn' = [conn EXCEPT ![c].herr = <<e>>, ![c].hadVideo = vid]
             /\ UNCHANGED page_opened
          \/ /\ cmd = "Stop" /\ vid
             /\ resp' = [resp EXCEPT ![d] =
                           dispatch([is_ok |-> TRUE, val |-> ResponseErr(FFMPEG_FAILED)])]
             /\ conn' = [conn EXCEPT ![c].hadVideo = vid]
             /\ UNCHANGED page_opened
  /\ dpc' = [dpc EXCEPT ![d] = "write"]
  /\ UNCHANGED clientVars
  /\ UNCHANGED <<sockFile, pipe, noise, sentinels, cur, is_stop, backlog,
                 acceptOrder, respOrder>>
  /\ UNCHANGED <<waitVars, handlerVars, pureVars>>

\* Variant of WriteResponse: a Stop breaks the loop before its reply is written.
WriteResponse_stop_unanswered(d) ==
  /\ dpc[d] = "write"
  /\ LET c == cur[d]
     IN IF conn[c].open /\ ~is_stop[d]
        THEN /\ conn' = [conn EXCEPT ![c].nresp = @ + 1, ![c].got = <<resp[d]>>,
                                     ![c].dclosed = TRUE]
             /\ respOrder' = [respOrder EXCEPT ![d] = Append(@, c)]
             /\ dpc' = [dpc EXCEPT ![d] = "accept"]
        ELSE /\ conn' = [conn EXCEPT ![c].dclosed = TRUE]
             /\ dpc' = [dpc EXCEPT ![d] = IF is_stop[d] THEN "cleanup" ELSE "accept"]
             /\ UNCHANGED respOrder
  /\ cur' = [cur EXCEPT ![d] = 0]
  /\ UNCHANGED clientVars
  /\ UNCHANGED <<sockFile, pipe, noise, sentinels, page_opened, is_stop, resp,
                 backlog, acceptOrder>>
  /\ UNCHANGED <<waitVars, handlerVars, pureVars>>

\* Variant of WriteResponse: the loop also breaks after an error Response.
WriteResponse_break_on_error(d) ==
  /\ dpc[d] = "write"
  /\ LET c == cur[d]
     IN IF conn[c].open
        THEN /\ conn' = [conn EXCEPT ![c].nresp = @ + 1, ![c].got = <<resp[d]>>,
                                     ![c].dclosed = TRUE]
             /\ respOrder' = [respOrder EXCEPT ![d] = Append(@, c)]
             /\ dpc' = [dpc EXCEPT ![d] = IF is_stop[d] \/ ~resp[d].ok THEN "cleanup"
                                                                      ELSE "accept"]
        ELSE /\ conn' = [conn EXCEPT ![c].dclosed = TRUE]
             /\ dpc' = [dpc EXCEPT ![d] = "accept"]
             /\ UNCHANGED respOrder
  /\ cur' = [cur EXCEPT ![d] = 0]
  /\ UNCHANGED clientVars
  /\ UNCHANGED <<sockFile, pipe, noise, sentinels, page_opened, is_stop, resp,
                 backlog, acceptOrder>>
  /\ UNCHANGED <<waitVars, handlerVars, pureVars>>

\* Variant of WriteResponse: an error Response is dropped instead of written.
WriteResponse_drop_errors(d) ==
  /\ dpc[d] = "write"
  /\ LET c == cur[d]
     IN IF conn[c].open /\ resp[d].ok
        THEN /\ conn' = [conn EXCEPT ![c].nresp = @ + 1, ![c].got = <<resp[d]>>,
                                     ![c].dclosed = TRUE]
             /\ respOrder' = [respOrder EXCEPT ![d] = Append(@, c)]
             /\ dpc' = [dpc EXCEPT ![d] = IF is_stop[d] THEN "cleanup" ELSE "accept"]
        ELSE /\ conn' = [conn EXCEPT ![c].dclosed = TRUE]
             /\ dpc' = [dpc EXCEPT ![d] = "accept"]
             /\ UNCHANGED respOrder
  /\ cur' = [cur EXCEPT ![d] = 0]
  /\ UNCHANGED clientVars
  /\ UNCHANGED <<sockFile, pipe, noise, sentinels, page_opened, is_stop, resp,
                 backlog, acceptOrder>>
  /\ UNCHANGED <<waitVars, handlerVars, pureVars>>

\* run, lines 183-196: write the Response line, then break or loop.
WriteResponse(d) ==
  /\ dpc[d] = "write"
  /\ LET c == cur[d]
     IN IF conn[c].open
        THEN /\ conn' = [conn EXCEPT ![c].nresp = @ + 1, ![c].got = <<resp[d]>>,
                                     ![c].dclosed = TRUE]
             /\ respOrder' = [respOrder EXCEPT ![d] = Append(@, c)]
             /\ dpc' = [dpc EXCEPT ![d] = IF is_stop[d] THEN "cleanup" ELSE "accept"]
        ELSE /\ conn' = [conn EXCEPT ![c].dclosed = TRUE]
             /\ dpc' = [dpc EXCEPT ![d] = "accept"]
             /\ UNCHANGED respOrder
  /\ cur' = [cur EXCEPT ![d] = 0]
  /\ UNCHANGED clientVars
  /\ UNCHANGED <<sockFile, pipe, noise, sentinels, page_opened, is_stop, resp,
                 backlog, acceptOrder>>
  /\ UNCHANGED <<waitVars, handlerVars, pureVars>>

\* run, lines 198-202: remove the socket file and return Ok.
RunCleanup(d) ==
  /\ dpc[d] = "cleanup"
  /\ sockFile' = 0
  /\ dpc' = [dpc EXCEPT ![d] = "exited"]
  /\ UNCHANGED clientVars
  /\ UNCHANGED <<conn, pipe, noise, sentinels, page_opened, cur, is_stop, resp,
                 backlog, acceptOrder, respOrder>>
  /\ UNCHANGED <<waitVars, handlerVars, pureVars>>

\* ------------------------------------------------------------ wait engine
\* The polling handlers of handle_command: Wait (wait_for_visible), WaitAny,
\* WaitAll and WaitNot. Time is counted in sleep intervals.
\* [T]::join(", ").
RECURSIVE join_comma(_)
join_comma(ls) ==
  IF ls = <<>> THEN <<>>
  ELSE IF Len(ls) = 1 THEN <<ls[1]>>
  ELSE <<ls[1], ", ">> \o join_comma(Tail(ls))

\* The texts of the four timeout errors (anyhow::bail! format strings).
TimeoutMsg(t, sel) == <<"Timeout ", ToString(t), "ms exceeded. [selector: ", sel, "]">>
NoneMatchedMsg(t, sels) ==
  <<"Timeout ", ToString(t), "ms exceeded. None matched: [">> \o join_comma(sels) \o <<"]">>
StillMissingMsg(t, missing) ==
  <<"Timeout ", ToString(t), "ms exceeded. Still missing: [">> \o join_comma(missing) \o <<"]">>
DisappearMsg(sel) == <<"Timeout waiting for '", sel, "' to disappear">>
NotFoundMsg(t, sel) == <<"Timeout ", ToString(t), "ms: element not found [", sel, "]">>

\* What the engine can answer about a selector whose match is in state st:
\* count() fails; count() is 0; count() > 0 and is_visible() fails, or answers.
Obs(st) == {"count_err"} \cup (IF st = "absent" THEN {"absent"} ELSE {"vis_err", st})

\* What count() alone can answer (wait_not).
CountObs(st) == {"count_err"} \cup (IF st = "absent" THEN {"absent"} ELSE {"present"})

\* n > 0 && is_visible().await.unwrap_or(false), with a failed count read as 0
\* (wait_for_visible) or skipped (wait_any).
selector_matched(o) == o = "visible"

\* Variant of wait_all_miss: only the count is looked at.
wait_all_miss_count_only(o) == o \in {"count_err", "absent"}

\* wait_all, lines 362-373: the selector makes the iteration fail.
wait_all_miss(o) == o # "visible"

\* Variant of wait_any_value: the first selector of the list is returned.
wait_any_value_first(sels, i) == sels[1]

\* wait_any, lines 344-346: the value returned for a hit on selectors[i].
wait_any_value(sels, i) == sels[i]

\* Variant of wait_not_gone: a failed or zero count is not taken as gone.
wait_not_gone_never(o) == FALSE

\* wait_not, lines 401-404: loc.count().await.unwrap_or(0) == 0.
wait_not_gone(o) == o \in {"count_err", "absent"}

Running == wpc \in {"poll", "check", "sleep", "requery"}

Done(kind, value, msg) ==
  /\ wpc' = "done"
  /\ wres' = [kind |-> kind, value |-> value, msg |-> msg]

\* handle_command is entered with one of the polling commands.
WaitStart ==
  /\ wpc = "idle"
  /\ \E cmd \in {"Wait", "WaitAny", "WaitAll", "WaitNot", "ComputedStyle"}, sels \in SelLists,
        t \in 0..MaxTimeout, p \in [Sels -> PageStates] :
       /\ (cmd \in {"Wait", "WaitNot", "ComputedStyle"} => Len(sels) = 1)
       /\ winput' = [cmd |-> cmd, sels |-> sels, timeout |-> t]
       /\ page' = p
  /\ wpc' = "poll"
  /\ welapsed' = 0
  /\ wloc' = NoLoc
  /\ whist' = NoHist
  /\ wres' = NoResult
  /\ UNCHANGED <<sockFile, conn, clientVars, daemonVars, handlerVars, pureVars>>

\* Time passes while the handler awaits the engine.
Tick ==
  /\ Running
  /\ welapsed <= winput.timeout
  /\ welapsed' = welapsed + 1
  /\ UNCHANGED <<wpc, winput, page, wloc, whist, wres>>
  /\ UNCHANGED <<sockFile, conn, clientVars, daemonVars, handlerVars, pureVars>>

\* The page changes under the handler.
PageChange ==
  /\ Running
  /\ \E s \in Sels, st \in PageStates :
       /\ st # page[s]
       /\ page' = [page EXCEPT ![s] = st]
  /\ UNCHANGED <<wpc, winput, welapsed, wloc, whist, wres>>
  /\ UNCHANGED <<sockFile, conn, clientVars, daemonVars, handlerVars, pureVars>>

\* Variant of WaitPoll: the timeout is checked before the poll.
WaitPoll_check_first ==
  /\ wpc = "poll" /\ winput.cmd = "Wait"
  /\ IF welapsed > winput.timeout
     THEN /\ Done("err", <<>>, TimeoutMsg(winput.timeout, winput.sels[1]))
          /\ UNCHANGED <<wloc, whist>>
     ELSE \E o \in Obs(page[winput.sels[1]]) :
            /\ wloc' = [wloc EXCEPT !.obs = <<o>>]
            /\ whist' = [whist EXCEPT !.polls = @ + 1,
                                      !.everVis = @ \/ o = "visible"]
            /\ IF selector_matched(o)
               THEN Done("ok", <<>>, <<>>)
               ELSE wpc' = "sleep" /\ UNCHANGED wres
  /\ UNCHANGED <<winput, welapsed, page>>
  /\ UNCHANGED <<sockFile, conn, clientVars, daemonVars, handlerVars, pureVars>>

\* wait_for_visible, lines 780-783: one poll.
WaitPoll ==
  /\ wpc = "poll" /\ winput.cmd = "Wait"
  /\ \E o \in Obs(page[winput.sels[1]]) :
       /\ wloc' = [wloc EXCEPT !.obs = <<o>>]
       /\ whist' = [whist EXCEPT !.polls = @ + 1,
                                 !.everVis = @ \/ o = "visible"]
       /\ IF selector_matched(o)
          THEN Done("ok", <<>>, <<>>)
          ELSE wpc' = "check" /\ UNCHANGED wres
  /\ UNCHANGED <<winput, welapsed, page>>
  /\ UNCHANGED <<sockFile, conn, clientVars, daemonVars, handlerVars, pureVars>>

\* wait_any, lines 336-348: the for loop looks at selectors[i].
WaitAnyPoll ==
  /\ wpc = "poll" /\ winput.cmd = "WaitAny"
  /\ LET i == wloc.i
     IN \E o \in Obs(page[winput.sels[i]]) :
          /\ whist' = [whist EXCEPT !.polls = @ + 1,
                                    !.everVis = @ \/ o = "visible"]
          /\ IF selector_matched(o)
             THEN /\ Done("ok", <<wait_any_value(winput.sels, i)>>, <<>>)
                  /\ wloc' = [wloc EXCEPT !.obs = Append(@, o)]
             ELSE /\ wloc' = [wloc EXCEPT !.obs = Append(@, o), !.i = i + 1]
                  /\ wpc' = IF i = Len(winput.sels) THEN "check" ELSE "poll"
                  /\ UNCHANGED wres
  /\ UNCHANGED <<winput, welapsed, page>>
  /\ UNCHANGED <<sockFile, conn, clientVars, daemonVars, handlerVars, pureVars>>

\* wait_all, lines 360-374: the for loop looks at selectors[i]; a miss clears
\* all_visible and breaks.
WaitAllPoll ==
  /\ wpc = "poll" /\ winput.cmd = "WaitAll"
  /\ LET i == wloc.i
     IN \E o \in Obs(page[winput.sels[i]]) :
          LET obs == Append(wloc.obs, o)
          IN /\ whist' = [whist EXCEPT
                           !.polls = @ + 1,
                           !.everAll = @ \/ (/\ Len(obs) = Len(winput.sels)
                                             /\ \A k \in 1..Len(obs) : obs[k] = "visible")]
             /\ IF wait_all_miss(o)
                THEN /\ wloc' = [wloc EXCEPT !.obs = obs, !.all_visible = FALSE]
                     /\ wpc' = "check"
                ELSE /\ wloc' = [wloc EXCEPT !.obs = obs, !.i = i + 1]
                     /\ wpc' = IF i = Len(winput.sels) THEN "check" ELSE "poll"
  /\ UNCHANGED <<winput, welapsed, page, wres>>
  /\ UNCHANGED <<sockFile, conn, clientVars, daemonVars, handlerVars, pureVars>>

\* wait_not, lines 400-404: one count.
WaitNotPoll ==
  /\ wpc = "poll" /\ winput.cmd = "WaitNot"
  /\ \E o \in CountObs(page[winput.sels[1]]) :
       /\ wloc' = [wloc EXCEPT !.obs = <<o>>]
       /\ whist' = [whist EXCEPT !.polls = @ + 1,
                                 !.allPos = @ /\ o = "present"]
       /\ IF wait_not_gone(o)
          THEN Done("ok", <<>>, <<>>)
          ELSE wpc' = "check" /\ UNCHANGED wres
  /\ UNCHANGED <<winput, welapsed, page>>
  /\ UNCHANGED <<sockFile, conn, clientVars, daemonVars, handlerVars, pureVars>>

\* ComputedStyle, lines 637-646: the loop that waits for the element; a failed
\* count is taken for 0. "ok" is the break that leaves the loop.
ComputedStylePoll ==
  /\ wpc = "poll" /\ winput.cmd = "ComputedStyle"
  /\ \E o \in CountObs(page[winput.sels[1]]) :
       /\ wloc' = [wloc EXCEPT !.obs = <<o>>]
       /\ whist' = [whist EXCEPT !.polls = @ + 1,
                                 !.allPos = @ /\ o = "present"]
       /\ IF o = "present"
          THEN Done("ok", <<>>, <<>>)
          ELSE wpc' = "check" /\ UNCHANGED wres
  /\ UNCHANGED <<winput, welapsed, page>>
  /\ UNCHANGED <<sockFile, conn, clientVars, daemonVars, handlerVars, pureVars>>

\* After the polls of one iteration: wait_all returns if all_visible held;
\* every loop then compares start.elapsed() with the timeout (strictly).
WaitCheck ==
  /\ wpc = "check"
  /\ LET cmd == winput.cmd
         t == winput.timeout
     IN IF cmd = "WaitAll" /\ wloc.all_visible
        THEN Done("ok", <<>>, <<>>) /\ UNCHANGED wloc
        ELSE IF welapsed > t
        THEN CASE cmd = "Wait" ->
                    Done("err", <<>>, TimeoutMsg(t, winput.sels[1])) /\ UNCHANGED wloc
               [] cmd = "WaitAny" ->
                    Done("err", <<>>, NoneMatchedMsg(t, winput.sels)) /\ UNCHANGED wloc
               [] cmd = "WaitNot" ->
                    Done("err", <<>>, DisappearMsg(winput.sels[1])) /\ UNCHANGED wloc
               [] cmd = "ComputedStyle" ->
                    Done("err", <<>>, NotFoundMsg(t, winput.sels[1])) /\ UNCHANGED wloc
               [] OTHER ->
                    /\ wpc' = "requery"
                    /\ wloc' = [wloc EXCEPT !.i = 1, !.missing = <<>>, !.req = <<>>]
                    /\ UNCHANGED wres
        ELSE wpc' = "sleep" /\ UNCHANGED <<wres, wloc>>
  /\ UNCHANGED <<winput, welapsed, page, whist>>
  /\ UNCHANGED <<sockFile, conn, clientVars, daemonVars, handlerVars, pureVars>>

\* Variant of WaitSleep: the next round starts without any time having passed.
WaitSleep_no_time ==
  /\ wpc = "sleep"
  /\ wloc' = [wloc EXCEPT !.i = 1, !.obs = <<>>, !.all_visible = TRUE]
  /\ wpc' = "poll"
  /\ UNCHANGED <<winput, welapsed, page, whist, wres>>
  /\ UNCHANGED <<sockFile, conn, clientVars, daemonVars, handlerVars, pureVars>>

\* tokio::time::sleep of the loop, then the next iteration.
WaitSleep ==
  /\ wpc = "sleep"
  /\ welapsed' = IF welapsed <= winput.timeout THEN welapsed + 1 ELSE welapsed
  /\ wloc' = [wloc EXCEPT !.i = 1, !.obs = <<>>, !.all_visible = TRUE]
  /\ wpc' = "poll"
  /\ UNCHANGED <<winput, page, whist, wres>>
  /\ UNCHANGED <<sockFile, conn, clientVars, daemonVars, handlerVars, pureVars>>

\* wait_all, lines 377-392: after the timeout every selector is asked again;
\* an engine error leaves through `?`, a selector that is absent or not
\* visible is pushed to missing.
WaitAllRequery ==
  /\ wpc = "requery"
  /\ LET i == wloc.i
         sel == winput.sels[i]
     IN \E o \in Obs(page[sel]) :
          IF o \in {"count_err", "vis_err"}
          THEN /\ \E e \in EngineErrs : Done("err", <<>>, e)
               /\ wloc' = [wloc EXCEPT !.req = Append(@, o)]
          ELSE LET missing == IF o # "visible" THEN Append(wloc.missing, sel)
                                               ELSE wloc.missing
               IN /\ wloc' = [wloc EXCEPT !.req = Append(@, o), !.missing = missing,
                                          !.i = i + 1]
                  /\ IF i = Len(winput.sels)
                     THEN Done("err", <<>>, StillMissingMsg(winput.timeout, missing))
                     ELSE UNCHANGED <<wpc, wres>>
  /\ UNCHANGED <<winput, welapsed, page, whist>>
  /\ UNCHANGED <<sockFile, conn, clientVars, daemonVars, handlerVars, pureVars>>

\* The handler has returned; the next wait command may come.
WaitReturn ==
  /\ wpc = "done"
  /\ wpc' = "idle"
  /\ winput' = NoInput
  /\ welapsed' = 0
  /\ page' = [s \in Sels |-> "absent"]
  /\ wloc' = NoLoc
  /\ whist' = NoHist
  /\ wres' = NoResult
  /\ UNCHANGED <<sockFile, conn, clientVars, daemonVars, handlerVars, pureVars>>

\* ------------------------------------------------------ command handlers
\* handle_command of a daemon whose accept loop is running, one command at a
\* time: Exists and Count (the engine's count call under CHANNEL_TIMEOUT),
\* Header and HeaderClear (State.headers and the engine's extra headers) and
\* Stop (video finalization).

CHANNEL_TIMEOUT == 30

HeaderNames == {"X-A", "X-B"}
HeaderValues == {"1", "2"}
VideoOutputs == {<<"out", ".webm">>, <<"out", ".mp4">>}
IO_ERROR == <<"No such file or directory (os error 2)">>
ENGINE_ERROR == <<"Error: ", "Target closed">>

ChannelTimeoutMsg(selector) ==
  <<"Timeout waiting for Playwright response. ", "[selector: ", selector, "]">>

\* HashMap::insert
insert(h, name, value) ==
  [n \in DOMAIN h \cup {name} |-> IF n = name THEN value ELSE h[n]]

\* Variant of header_array: only one entry of the map is sent.
header_array_first_only(h) ==
  IF DOMAIN h = {} THEN {}
  ELSE LET n == CHOOSE x \in DOMAIN h : TRUE IN {[name |-> n, value |-> h[n]]}

\* pw_ext::set_extra_http_headers: the whole map as an array of {name, value}
header_array(h) == {[name |-> n, value |-> h[n]] : n \in DOMAIN h}

ends_with(path, ext) == Len(path) > 0 /\ path[Len(path)] = ext

\* run, lines 80-110: PLWR_VIDEO decides whether the session records a video;
\* create_dir_all and tempdir_in return early with `?` when they fail.
RunVideo ==
  /\ hpc = "boot"
  /\ \E v \in {<<>>} \cup {<<o>> : o \in VideoOutputs}, made \in BOOLEAN :
       IF v = <<>>
       THEN /\ made
            /\ hpc' = "idle"
            /\ UNCHANGED <<video, tmpdir>>
       ELSE IF made
       THEN /\ hpc' = "idle"
            /\ video' = <<[output_path |-> v[1]]>>
            /\ tmpdir' = [exists |-> TRUE, raw |-> FALSE]
       ELSE /\ hpc' = "exited"
            /\ UNCHANGED <<video, tmpdir>>
  /\ UNCHANGED <<hcmd, hclock, headers, engHeaders, outFile, hres, hhist>>
  /\ UNCHANGED console_initialized
  /\ UNCHANGED <<sockFile, conn, clientVars, daemonVars, waitVars, pureVars>>

\* the accept loop hands a decoded command to handle_command
HandlerStart(cmds) ==
  /\ hpc = "idle"
  /\ \E c \in cmds, s \in Sels, n \in HeaderNames, v \in HeaderValues :
       hcmd' = [cmd |-> c,
                selector |-> IF c \in {"Exists", "Count"} THEN s ELSE "",
                name |-> IF c = "Header" THEN n ELSE "",
                value |-> IF c = "Header" THEN v ELSE ""]
  /\ hpc' = "handle"
  /\ hclock' = 0
  /\ hres' = Ok(ResponseOkEmpty)
  /\ hhist' = [hhist EXCEPT !.stalled = FALSE]
  /\ UNCHANGED <<headers, engHeaders, video, tmpdir, outFile>>
  /\ UNCHANGED console_initialized
  /\ UNCHANGED <<sockFile, conn, clientVars, daemonVars, waitVars, pureVars>>

\* Exists, Count: tokio::time::timeout(CHANNEL_TIMEOUT, loc.count()) starts
CountCall ==
  /\ hpc = "handle"
  /\ hcmd.cmd \in {"Exists", "Count"}
  /\ hpc' = "count"
  /\ hclock' = 0
  /\ UNCHANGED <<hcmd, headers, engHeaders, video, tmpdir, outFile, hres, hhist>>
  /\ UNCHANGED console_initialized
  /\ UNCHANGED <<sockFile, conn, clientVars, daemonVars, waitVars, pureVars>>

\* a second passes while the count call is pending
HandlerTick ==
  /\ hpc = "count"
  /\ hclock < CHANNEL_TIMEOUT
  /\ hclock' = hclock + 1
  /\ UNCHANGED <<hpc, hcmd, headers, engHeaders, video, tmpdir, outFile, hres, hhist>>
  /\ UNCHANGED console_initialized
  /\ UNCHANGED <<sockFile, conn, clientVars, daemonVars, waitVars, pureVars>>

count_value(cmd, n) ==
  IF cmd = "Exists" THEN (IF n > 0 THEN "true" ELSE "false") ELSE ToString(n)

\* the engine answers the count call: a number or an error
CountReturn ==
  /\ hpc = "count"
  /\ \E r \in {Ok(n) : n \in 0..MaxSels} \cup {Err(ENGINE_ERROR)} :
       hres' = IF r.is_ok
               THEN Ok(ResponseOkValue(count_value(hcmd.cmd, r.val)))
               ELSE r
  /\ hpc' = "done"
  /\ UNCHANGED <<hcmd, hclock, headers, engHeaders, video, tmpdir, outFile, hhist>>
  /\ UNCHANGED console_initialized
  /\ UNCHANGED <<sockFile, conn, clientVars, daemonVars, waitVars, pureVars>>

\* Variant of CountTimeout: the count call is awaited without a timeout.
CountTimeout_never ==
  /\ FALSE
  /\ UNCHANGED vars

\* CHANNEL_TIMEOUT elapsed with the count call still pending
CountTimeout ==
  /\ hpc = "count"
  /\ hclock = CHANNEL_TIMEOUT
  /\ hres' = Err(ChannelTimeoutMsg(hcmd.selector))
  /\ hpc' = "done"
  /\ hhist' = [hhist EXCEPT !.stalled = TRUE]
  /\ UNCHANGED <<hcmd, hclock, headers, engHeaders, video, tmpdir, outFile>>
  /\ UNCHANGED console_initialized
  /\ UNCHANGED <<sockFile, conn, clientVars, daemonVars, waitVars, pureVars>>

\* Variant of HandleOpen: the flag is set only after the navigation succeeded.
HandleOpen_flag_after_goto ==
  /\ hpc = "handle"
  /\ hcmd.cmd = "Open"
  /\ \E o \in {"ok", "install_err", "goto_err"} :
       /\ o = "install_err" => ~console_initialized
       /\ console_initialized' = (console_initialized \/ o = "ok")
       /\ hhist' = [hhist EXCEPT
                      !.installed = @ \/ (~console_initialized /\ o # "install_err"),
                      !.again = @ \/ (hhist.installed /\ ~console_initialized
                                       /\ o # "install_err"),
                      !.navFailed = @ \/ o = "goto_err"]
       /\ page_opened' = [page_opened EXCEPT ![1] = @ \/ o = "ok"]
       /\ hres' = IF o = "ok" THEN Ok(ResponseOkEmpty) ELSE Err(ENGINE_ERROR)
  /\ hpc' = "done"
  /\ UNCHANGED <<hcmd, hclock, headers, engHeaders, video, tmpdir, outFile>>
  /\ UNCHANGED <<dpc, pipe, noise, sentinels, cur, is_stop, resp, backlog, acceptOrder,
                 respOrder>>
  /\ UNCHANGED <<sockFile, conn, clientVars, waitVars, pureVars>>

\* Open: add_init_script(..)? unless console_initialized, the flag, goto(..)?,
\* page_opened. The session's daemon is daemon 1.
HandleOpen ==
  /\ hpc = "handle"
  /\ hcmd.cmd = "Open"
  /\ \E o \in {"ok", "install_err", "goto_err"} :
       /\ o = "install_err" => ~console_initialized
       /\ console_initialized' = (console_initialized \/ o # "install_err")
       /\ hhist' = [hhist EXCEPT
                      !.installed = @ \/ (~console_initialized /\ o # "install_err"),
                      !.again = @ \/ (hhist.installed /\ ~console_initialized
                                       /\ o # "install_err"),
                      !.navFailed = @ \/ o = "goto_err"]
       /\ page_opened' = [page_opened EXCEPT ![1] = @ \/ o = "ok"]
       /\ hres' = IF o = "ok" THEN Ok(ResponseOkEmpty) ELSE Err(ENGINE_ERROR)
  /\ hpc' = "done"
  /\ UNCHANGED <<hcmd, hclock, headers, engHeaders, video, tmpdir, outFile>>
  /\ UNCHANGED <<dpc, pipe, noise, sentinels, cur, is_stop, resp, backlog, acceptOrder,
                 respOrder>>
  /\ UNCHANGED <<sockFile, conn, clientVars, waitVars, pureVars>>

\* Header: insert, page.context()?, set_extra_http_headers(..).await?
HandleHeader ==
  /\ hpc = "handle"
  /\ hcmd.cmd = "Header"
  /\ headers' = insert(headers, hcmd.name, hcmd.value)
  /\ \E o \in {"ok", "context_err", "push_err"} :
       /\ engHeaders' = IF o = "ok" THEN header_array(headers') ELSE engHeaders
       /\ hres' = IF o = "ok" THEN Ok(ResponseOkEmpty) ELSE Err(ENGINE_ERROR)
       /\ hhist' = [hhist EXCEPT
                      !.ref = IF o = "ok" THEN insert(@, hcmd.name, hcmd.value) ELSE @,
                      !.failed = @ \/ o # "ok",
                      !.lastOk = o = "ok"]
  /\ hpc' = "done"
  /\ UNCHANGED <<hcmd, hclock, video, tmpdir, outFile>>
  /\ UNCHANGED console_initialized
  /\ UNCHANGED <<sockFile, conn, clientVars, daemonVars, waitVars, pureVars>>

\* HeaderClear: clear, page.context()?, set_extra_http_headers(empty).await?
HandleHeaderClear ==
  /\ hpc = "handle"
  /\ hcmd.cmd = "HeaderClear"
  /\ headers' = <<>>
  /\ \E o \in {"ok", "context_err", "push_err"} :
       /\ engHeaders' = IF o = "ok" THEN header_array(<<>>) ELSE engHeaders
       /\ hres' = IF o = "ok" THEN Ok(ResponseOkEmpty) ELSE Err(ENGINE_ERROR)
       /\ hhist' = [hhist EXCEPT
                      !.ref = IF o = "ok" THEN <<>> ELSE @,
                      !.failed = @ \/ o # "ok",
                      !.lastOk = o = "ok"]
  /\ hpc' = "done"
  /\ UNCHANGED <<hcmd, hclock, video, tmpdir, outFile>>
  /\ UNCHANGED console_initialized
  /\ UNCHANGED <<sockFile, conn, clientVars, daemonVars, waitVars, pureVars>>

\* how video finalization can end, given the output path and whether the
\* engine left a raw .webm in the capture directory
FinalizeOutcomes(output_path, raw) ==
  {"close_err", "read_dir_err"}
    \cup (IF ~raw THEN {"no_raw"}
          ELSE IF ends_with(output_path, ".webm") THEN {"copied", "copy_err"}
          ELSE {"transcoded", "spawn_err", "ffmpeg_nonzero"})

\* the outcomes after which the handler calls remove_dir_all(&vs.temp_dir)
finalize_removes(fin) == fin \in {"no_raw", "copied", "transcoded", "ffmpeg_nonzero"}

finalize_result(fin) ==
  CASE fin \in {"no_raw", "copied", "transcoded"} -> Ok(ResponseOkEmpty)
    [] fin = "ffmpeg_nonzero" -> Ok(ResponseErr(FFMPEG_FAILED))
    [] fin = "close_err" -> Err(ENGINE_ERROR)
    [] OTHER -> Err(IO_ERROR)

\* Stop: state.video.take() and, for a recording session, the finalization
HandleStop ==
  /\ hpc = "handle"
  /\ hcmd.cmd = "Stop"
  /\ video' = <<>>
  /\ IF video = <<>>
     THEN /\ hres' = Ok(ResponseOkEmpty)
          /\ UNCHANGED <<tmpdir, outFile, hhist>>
     ELSE \E raw \in BOOLEAN, rm \in BOOLEAN :
          \E fin \in FinalizeOutcomes(video[1].output_path, raw) :
            /\ hres' = finalize_result(fin)
            /\ outFile' = (fin \in {"copied", "transcoded"})
            /\ tmpdir' = IF finalize_removes(fin) /\ rm
                         THEN NoTmp
                         ELSE [exists |-> TRUE, raw |-> raw /\ fin # "close_err"]
            /\ hhist' = [hhist EXCEPT !.fin = fin, !.rm = finalize_removes(fin) /\ rm]
  /\ hpc' = "done"
  /\ UNCHANGED <<hcmd, hclock, headers, engHeaders>>
  /\ UNCHANGED console_initialized
  /\ UNCHANGED <<sockFile, conn, clientVars, daemonVars, waitVars, pureVars>>

\* run, lines 178-180: the response made of what handle_command returned
hresp == dispatch(hres)

\* run, lines 182-195: the response is written and the loop goes back to
\* accept, or ends after a Stop
HandlerReturn ==
  /\ hpc = "done"
  /\ hpc' = IF hcmd.cmd = "Stop" THEN "stopped" ELSE "idle"
  /\ UNCHANGED <<hcmd, hclock, headers, engHeaders, video, tmpdir, outFile, hres, hhist>>
  /\ UNCHANGED console_initialized
  /\ UNCHANGED <<sockFile, conn, clientVars, daemonVars, waitVars, pureVars>>

\* -------------------------------------------------------- pure functions
\* clean_error, requires_page and main's exit code applied to inputs drawn
\* from bounded sets.

MaxMsgLen == 3

ErrTokens ==
  {"Protocol error: ", "Protocol error ", "(", ": ", "Error: ", "strict mode violation: ",
   "x", "resolved to", "elements", " ", "\n", " \n ", "    at ", "[selector: ", "]"}

TokenMsgs == UNION {[1..n -> ErrTokens] : n \in 0..MaxMsgLen}

\* selectors as a command carries them; an attribute selector contains "]"
SelectorTexts == {<<"a">>, <<"a[href", "]">>}

\* the engine's error for a locator that matched several elements, with or
\* without its prefixes, stack frames and selector suffix
StrictMsgs ==
  {[e |-> pre \o <<"locator", "resolved to", "2", "elements">> \o mid \o suf.text \o post,
    sel |-> suf.sel] :
     pre \in {<<>>, <<"Error: ", "strict mode violation: ">>},
     mid \in {<<>>, <<" ">>, <<"\n", "    at ", "frame", "\n">>},
     suf \in {[text |-> <<>>, sel |-> <<>>]}
              \cup {[text |-> <<"[selector: ">> \o t \o <<"]">>, sel |-> t] : t \in SelectorTexts},
     post \in {<<>>, <<"\n", "    at ", "frame">>}}

ErrInputs == {[e |-> m, sel |-> <<>>] : m \in TokenMsgs} \cup StrictMsgs

\* what the daemon can answer, by kind of invocation
ResponsesOf(kind) ==
  IF kind \in {"start", "stop"}
  THEN {ResponseOkEmpty, ResponseErr(IO_ERROR)}
  ELSE {ResponseOkEmpty, ResponseErr(IO_ERROR)}
         \cup {ResponseOkValue(v) : v \in {"false", "true", "\"false\"", "null", "0"}}

\* what the exchange can return: a connect, transport or decode error, a
\* response, or for stop no daemon at all
ExchangeResults(kind) ==
  {Err(<<m>>) : m \in {"connect", "transport", "decode"}}
    \cup (IF kind = "stop"
          THEN {Ok(<<>>)} \cup {Ok(<<r>>) : r \in ResponsesOf(kind)}
          ELSE {Ok(r) : r \in ResponsesOf(kind)})

CleanErrorApply ==
  /\ pfn = ""
  /\ pfn' = "clean_error"
  /\ \E i \in ErrInputs :
       /\ pin' = i
       /\ pout' = <<clean_error(i.e)>>
  /\ UNCHANGED <<sockFile, conn, clientVars, daemonVars, waitVars, handlerVars>>

\* the normalizer applied to its own output
CleanErrorAgain ==
  /\ pfn = "clean_error"
  /\ Len(pout) = 1
  /\ pout' = Append(pout, clean_error(pout[1]))
  /\ UNCHANGED <<pfn, pin>>
  /\ UNCHANGED <<sockFile, conn, clientVars, daemonVars, waitVars, handlerVars>>

\* handle_command's first match, lines 207-281: the arms that return early;
\* every other command falls through `_ => {}`.
FirstMatchArms ==
  {"Open", "Header", "HeaderClear", "Cookie", "CookieList", "CookieClear", "Viewport"}

\* handle_command's second match, lines 285-766: the arms that handle a
\* command; it has no wildcard arm. Lines 767-773 are the first match's
\* commands again, as unreachable!().
SecondMatchArms ==
  {"Stop", "Reload", "Url", "Wait", "WaitAny", "WaitAll", "WaitNot", "Click", "Fill",
   "Press", "Exists", "Text", "Attr", "Count", "InputFiles", "Select", "Hover",
   "Check", "Uncheck", "Dblclick", "Focus", "Blur", "InnerHtml", "InputValue",
   "ScrollIntoView", "ComputedStyle", "Console", "ConsoleClear", "Eval",
   "Screenshot", "Tree"}

\* The arm of handle_command that takes command c: "first", "second", or
\* "none" when neither match names the variant.
handle_command_arm(c) ==
  IF c \in FirstMatchArms THEN "first"
  ELSE IF c \in SecondMatchArms THEN "second"
  ELSE "none"

HandleCommandArmApply ==
  /\ pfn = ""
  /\ pfn' = "handle_command"
  /\ \E c \in Variants :
       /\ pin' = c
       /\ pout' = handle_command_arm(c)
  /\ UNCHANGED <<sockFile, conn, clientVars, daemonVars, waitVars, handlerVars>>

\* Script results and JSON values: [t, v], t the JavaScript / JSON type and v
\* the text of the value: a string's content, or the JSON text of anything
\* else. Texts are token sequences.
QUOTE == "\""
ESCAPED_QUOTE == "\\\""
JsStrings ==
  {<<"abc">>, <<"1">>, <<"true">>, <<"null">>, <<"[1]">>, <<"{\"a\":1}">>,
   <<QUOTE, "abc", QUOTE>>}
JsResults ==
  {[t |-> "string", v |-> x] : x \in JsStrings} \cup
  {[t |-> "number", v |-> <<"1">>], [t |-> "boolean", v |-> <<"true">>],
   [t |-> "boolean", v |-> <<"false">>], [t |-> "null", v |-> <<"null">>],
   [t |-> "array", v |-> <<"[1]">>], [t |-> "object", v |-> <<"{\"a\":1}">>]}

\* JSON string escaping of a text, and its inverse.
escape(x) == [i \in 1..Len(x) |-> IF x[i] = QUOTE THEN ESCAPED_QUOTE ELSE x[i]]
unescape(x) == [i \in 1..Len(x) |-> IF x[i] = ESCAPED_QUOTE THEN QUOTE ELSE x[i]]

\* The JSON text of a value: JSON.stringify in the page, serde_json::to_string.
to_json(x) == IF x.t = "string" THEN <<QUOTE>> \o escape(x.v) \o <<QUOTE>> ELSE x.v

\* serde_json::from_str::<Value>: Ok(value) or Err for a text that is no JSON.
from_str(text) ==
  IF text = <<"1">> THEN Ok([t |-> "number", v |-> text])
  ELSE IF text \in {<<"true">>, <<"false">>} THEN Ok([t |-> "boolean", v |-> text])
  ELSE IF text = <<"null">> THEN Ok([t |-> "null", v |-> text])
  ELSE IF text = <<"[1]">> THEN Ok([t |-> "array", v |-> text])
  ELSE IF text = <<"{\"a\":1}">> THEN Ok([t |-> "object", v |-> text])
  ELSE IF /\ Len(text) >= 2
          /\ text[1] = QUOTE /\ text[Len(text)] = QUOTE
          /\ \A i \in 2..(Len(text) - 1) : text[i] # QUOTE
       THEN Ok([t |-> "string", v |-> unescape(SubSeq(text, 2, Len(text) - 1))])
  ELSE Err(text)

\* JavaScript's typeof: null and arrays are objects.
typeof(x) == IF x.t \in {"object", "array", "null"} THEN "object" ELSE x.t

\* The wrapper of Eval, line 699-702: an object becomes its JSON text, a string.
eval_wrapper(r) ==
  IF typeof(r) = "object" THEN [t |-> "string", v |-> to_json(r)] ELSE r

\* The two forms in which the engine can hand a script result back as a Rust
\* String: its JSON text, or a string's content as it is. Eval's match has an
\* arm for either.
Encodings == {"json", "raw"}
page_evaluate_value(x, enc) == IF enc = "json" THEN to_json(x) ELSE x.v

\* Eval, lines 698-715: the value of the Response.
eval_value(r, enc) ==
  LET val == page_evaluate_value(eval_wrapper(r), enc)
      p == from_str(val)
  IN IF p.is_ok /\ p.val.t = "string"
     THEN LET q == from_str(p.val.v)
          IN IF q.is_ok /\ q.val.t \in {"object", "array"}
             THEN q.val
             ELSE [t |-> "string", v |-> p.val.v]
     ELSE IF p.is_ok THEN p.val
     ELSE [t |-> "string", v |-> val]

EvalApply ==
  /\ pfn = ""
  /\ pfn' = "eval"
  /\ \E r \in JsResults, enc \in Encodings :
       /\ pin' = [r |-> r, enc |-> enc]
       /\ pout' = eval_value(r, enc)
  /\ UNCHANGED <<sockFile, conn, clientVars, daemonVars, waitVars, handlerVars>>

RequiresPageApply ==
  /\ pfn = ""
  /\ pfn' = "requires_page"
  /\ \E c \in Variants :
       /\ pin' = c
       /\ pout' = requires_page(c)
  /\ UNCHANGED <<sockFile, conn, clientVars, daemonVars, waitVars, handlerVars>>

ExitCodeApply ==
  /\ pfn = ""
  /\ pfn' = "exit_code"
  /\ \E kind \in {"start", "stop", "send"} :
       \E r \in ExchangeResults(kind) :
         /\ pin' = [kind |-> kind, r |-> r]
         /\ pout' = exit_code(kind, r)
  /\ UNCHANGED <<sockFile, conn, clientVars, daemonVars, waitVars, handlerVars>>

\* ---------------------------------------------------------- specification
\* Steps of start_daemon and of the daemon's startup, shared by all three
\* specifications below.
BootClient(c) ==
  \/ EnsureStarted(c)
  \/ StartDaemonRemove(c)
  \/ StartDaemonSpawn(c)
  \/ StartDaemonReadLine(c)
  \/ StartDaemonEOF(c)
  \/ StartDaemonWait(c)

BootDaemon(d) ==
  \/ RunRemoveSocket(d)
  \/ RunLaunch(d)
  \/ RunBind(d)
  \/ RunReady(d)
  \/ MainRunFailed(d)

Exchange(c) ==
  \/ Connect(c)
  \/ WriteRequest(c)
  \/ ReadResponse(c)

Loop(d) ==
  \/ Accept(d)
  \/ ReadRequest(d)
  \/ HandleCommand(d)
  \/ WriteResponse(d)
  \/ RunCleanup(d)

\* The accept loop under load: process 1 runs `plwr start`, the others run
\* commands against the session; clients may be killed, accept may fail.
Next ==
  \/ Launch(1, {"start"})
  \/ \E p \in Procs \ {1} : Launch(p, {"send", "stop"})
  \/ \E p \in Procs : BootClient(p) \/ BootDaemon(p) \/ Exchange(p) \/ Loop(p)
  \/ \E p \in Procs : ClientKilled(p)
  \/ \E p \in Procs : AcceptFail(p)

Spec == Init /\ [][Next]_vars

\* Session ownership: every process may run `plwr start`, daemons may die.
NextSession ==
  \/ \E p \in Procs : Launch(p, {"start", "stop"})
  \/ \E p \in Procs : BootClient(p) \/ BootDaemon(p) \/ Exchange(p) \/ Loop(p)
  \/ \E p \in Procs : DaemonCrash(p)

SpecSession == Init /\ [][NextSession]_vars

\* The bootstrap handshake of one `plwr start`, with stdout noise, the
\* startup deadline and daemon death.
NextBoot ==
  \/ Launch(1, {"start"})
  \/ BootClient(1) \/ BootDaemon(1) \/ Exchange(1)
  \/ Accept(1) \/ ReadRequest(1) \/ HandleCommand(1) \/ WriteResponse(1)
  \/ DeadlineExpires(1)
  \/ EmitNoise(1)
  \/ DaemonCrash(1)

SpecBoot == Init /\ [][NextBoot]_vars

\* Concurrent bootstraps: every process runs `plwr start` up to the point where
\* start_daemon returns; daemons may die and leave their socket file behind.
NextStale ==
  \/ \E p \in Procs : Launch(p, {"start"})
  \/ \E p \in Procs : BootClient(p) \/ BootDaemon(p)
  \/ \E p \in Procs : DaemonCrash(p)

SpecStale == Init /\ [][NextStale]_vars

\* The wait handlers, one command at a time, against a page that changes and
\* an engine that may fail any call.
NextWait ==
  \/ WaitStart
  \/ Tick
  \/ PageChange
  \/ WaitPoll
  \/ WaitAnyPoll
  \/ WaitAllPoll
  \/ WaitNotPoll
  \/ ComputedStylePoll
  \/ WaitCheck
  \/ WaitSleep
  \/ WaitAllRequery
  \/ WaitReturn

SpecWait == Init /\ [][NextWait]_vars

\* Exists and Count in a running daemon
NextCount ==
  \/ RunVideo
  \/ HandlerStart({"Exists", "Count"})
  \/ CountCall
  \/ HandlerTick
  \/ CountReturn
  \/ CountTimeout
  \/ HandlerReturn

\* with time passing, the timer of tokio::time::timeout firing and the accept
\* loop running on
SpecCount ==
  /\ Init /\ [][NextCount]_vars
  /\ WF_vars(HandlerTick)
  /\ WF_vars(CountTimeout)
  /\ WF_vars(HandlerReturn)

\* Open, Header, HeaderClear and Stop in a running daemon
NextHandler ==
  \/ RunVideo
  \/ HandlerStart({"Open", "Header", "HeaderClear", "Stop"})
  \/ HandleOpen
  \/ HandleHeader
  \/ HandleHeaderClear
  \/ HandleStop
  \/ HandlerReturn

SpecHandler == Init /\ [][NextHandler]_vars

\* the pure functions on their inputs
NextPure ==
  \/ CleanErrorApply
  \/ CleanErrorAgain
  \/ RequiresPageApply
  \/ HandleCommandArmApply
  \/ EvalApply
  \/ ExitCodeApply

SpecPure == Init /\ [][NextPure]_vars

\* ================================================================ claims
Range(q) == {q[i] : i \in 1..Len(q)}
Pos(q, x) == CHOOSE i \in 1..Len(q) : q[i] = x
Accepted(c) == conn[c].d # 0 /\ c \in Range(acceptOrder[conn[c].d])

\* C1: a request whose command requires a page and that reaches the gate
\* while page_opened is false never enters handle_command, and the response
\* computed for it and written to its connection is the "No page open" error.
C1_NoPageGate ==
  \A c \in Procs :
    (Accepted(c) /\ conn[c].reqSent /\ decodes(ccmd[c])
       /\ ccmd[c] \notin {"Open", "Stop", "Header", "HeaderClear", "Viewport"}
       /\ ~conn[c].pageAtGate
       /\ (cur[conn[c].d] # c \/ dpc[conn[c].d] \in {"handle", "write"}))
    => /\ ~conn[c].handled
       /\ cur[conn[c].d] = c => /\ dpc[conn[c].d] = "write"
                                /\ resp[conn[c].d] = ResponseErr(NO_PAGE_OPEN)
       /\ conn[c].got # <<>> => conn[c].got[1] = ResponseErr(NO_PAGE_OPEN)

C1_Witness ==
  \E c \in Procs :
    /\ ccmd[c] = "Text"
    /\ conn[c].got = <<ResponseErr(NO_PAGE_OPEN)>>
    /\ ~conn[c].handled

\* C2: the daemon services connections one at a time: every connection
\* accepted before the latest one has been finished (reply written or
\* connection abandoned), at most one request is inside handle_command, and
\* responses are written in the order the connections were accepted.
InService(d) == {c \in Procs : conn[c].d = d /\ Accepted(c) /\ ~conn[c].dclosed}

C2_OneAtATime ==
  \A d \in Procs :
    /\ \A i \in 1..(Len(acceptOrder[d]) - 1) : conn[acceptOrder[d][i]].dclosed
    /\ Cardinality(InService(d)) <= 1
    /\ Alive(d) => InService(d) \subseteq {cur[d]}
    /\ Range(respOrder[d]) \subseteq Range(acceptOrder[d])
    /\ \A i, j \in 1..Len(respOrder[d]) :
         i < j => Pos(acceptOrder[d], respOrder[d][i]) < Pos(acceptOrder[d], respOrder[d][j])

C2_Witness ==
  \E d \in Procs :
    /\ Len(acceptOrder[d]) >= 2
    /\ Len(respOrder[d]) >= 2

\* C3 as stated: every accepted connection on which a request line was
\* written has exactly one Response line once the daemon has dropped it.
C3_ExactlyOneResponse ==
  \A c \in Procs :
    (Accepted(c) /\ conn[c].reqSent /\ conn[c].dclosed) => conn[c].nresp = 1

\* C3 amended: a connection never carries more than one Response line, and
\* it carries exactly one once the daemon has dropped it, provided the
\* request line decoded as a Request and the client's end was still open
\* (a client that was not killed and has read to the end got its Response).
C3_AtMostOneResponse ==
  \A c \in Procs :
    /\ conn[c].nresp <= 1
    /\ (Accepted(c) /\ conn[c].reqSent /\ conn[c].dclosed /\ ccmd[c] # "Malformed"
          /\ cres[c] # "killed")
       => conn[c].nresp = 1
    /\ (Accepted(c) /\ conn[c].reqSent /\ ccmd[c] # "Malformed" /\ cpc[c] = "done"
          /\ cres[c] # "killed")
       => cres[c] \in {"ok", "resp_err"}

C3_Witness ==
  \E c, k \in Procs :
    /\ conn[c].nresp = 1 /\ cres[c] = "resp_err"
    /\ Accepted(k) /\ conn[k].reqSent /\ conn[k].dclosed /\ conn[k].nresp = 0

Serving(d) == dpc[d] \in {"bound", "accept", "read", "handle", "write"}

C5_SingleOwner ==
  /\ \A d \in Procs : Serving(d) => sockFile = d
  /\ Cardinality({d \in Procs : Serving(d)}) <= 1

\* C6: whenever ensure_started returns early because it takes the session
\* to be running, a daemon was in fact listening on the socket.
C6_LivenessByConnect ==
  \A c \in Procs : (ckind[c] = "start" /\ spawns[c] = 0 /\ cpc[c] \in {"connect", "write", "read", "done"})
                     => es_live[c]

\* ------------------------------------------------ bootstrap handshake
IsErrorLine(l) == Len(l) >= 4 /\ l[1] = "###" /\ l[2] = " " /\ l[3] = "error" /\ l[4] = " "
IsReadyLine(l) == Len(l) = 3 /\ l[1] = "###" /\ l[2] = " " /\ l[3] = "ready"
IsSentinel(l) == IsErrorLine(l) \/ IsReadyLine(l)
Remainder(l) == [i \in 1..(Len(l) - 4) |-> l[i + 4]]
Returned(c) == sd_res[c].kind # "none" /\ cpc[c] \notin {"sd_read", "sd_wait"}
NoSentinelRead(c) == \A i \in 1..Len(seen[c]) : ~IsSentinel(seen[c][i])

\* C7: when the deadline passes while the daemon is running and has printed
\* no sentinel, start_daemon ends with the timeout error and kills the child.
C7_DeadlineBoundsLoop ==
  \A c \in Procs :
    (expired[c] = "silent" /\ sd_res[c].kind # "none")
      => sd_res[c].kind = "timeout" /\ childKilled[c]

\* C8: start_daemon returns Ok exactly when the last line it read is the
\* ready line, read before the deadline expired, with only non-sentinel lines
\* before it; on success the child is neither waited for nor killed.
C8_ReadyIffSuccess ==
  \A c \in Procs :
    Returned(c) =>
      /\ sd_res[c].kind = "ok" <=>
           /\ seen[c] # <<>>
           /\ IsReadyLine(seen[c][Len(seen[c])])
           /\ \A i \in 1..(Len(seen[c]) - 1) : ~IsSentinel(seen[c][i])
           /\ expired[c] = "no"
      /\ sd_res[c].kind = "ok" => ~childKilled[c] /\ ~childWaited[c]

C8_Witness ==
  \E c \in Procs :
    /\ Returned(c) /\ sd_res[c].kind = "ok"
    /\ Len(seen[c]) = 2 /\ seen[c][1] = <<"###", " ", "ready", "!">>
    /\ Alive(c)

\* C9 as stated: when the first sentinel read is an error line, start_daemon
\* fails with the remainder of that line, after waiting for the child.
C9_ErrorLineReported ==
  \A c \in Procs :
    (Returned(c) /\ seen[c] # <<>> /\ IsErrorLine(seen[c][Len(seen[c])]))
      => /\ sd_res[c] = [kind |-> "error", msg |-> Remainder(seen[c][Len(seen[c])])]
         /\ childWaited[c]

\* C9 amended: the same, for an error line read before the deadline expired;
\* the child has exited when start_daemon returns.
C9_ErrorLineReportedInTime ==
  \A c \in Procs :
    /\ (Returned(c) /\ seen[c] # <<>> /\ IsErrorLine(seen[c][Len(seen[c])])
          /\ expired[c] = "no")
         => /\ sd_res[c] = [kind |-> "error", msg |-> Remainder(seen[c][Len(seen[c])])]
            /\ childWaited[c] /\ ~childKilled[c]
            /\ Dead(c)
            /\ cres[c] = "boot_err"
    /\ (cpc[c] = "sd_wait" /\ sd_res[c].kind = "error")
         => sd_res[c].msg = Remainder(seen[c][Len(seen[c])])

C9_Witness ==
  \E c \in Procs :
    /\ Returned(c) /\ expired[c] = "no"
    /\ sd_res[c] = [kind |-> "error", msg |-> <<"launch">>]
    /\ childWaited[c]

\* C10: when start_daemon runs out of lines without having read a sentinel
\* (it did not stop on the deadline), it fails with the "Daemon exited
\* unexpectedly" error after waiting for the child, and never returns Ok.
C10_EofIsFailure ==
  \A c \in Procs :
    (Returned(c) /\ NoSentinelRead(c) /\ sd_res[c].kind \notin {"timeout", "spawn_failed"})
      => /\ sd_res[c].kind = "exited"
         /\ childWaited[c] /\ ~childKilled[c]
         /\ Dead(c)
         /\ cres[c] = "boot_err"

C10_Witness ==
  \E c \in Procs :
    /\ Returned(c) /\ sd_res[c].kind = "exited" /\ childWaited[c]
    /\ seen[c] = <<<<"log">>>>

Exchanged(c) ==
  IF cres[c] = "not_running" THEN Ok(<<>>)
  ELSE IF cres[c] \in {"ok", "resp_err"}
  THEN (IF ckind[c] = "stop" THEN Ok(conn[c].got) ELSE Ok(conn[c].got[1]))
  ELSE Err(<<cres[c]>>)

\* C12: a `plwr stop` process (send_if_running) never runs a step of
\* start_daemon, so it spawns nothing and neither removes nor creates the
\* socket file; a failed connect ends it at once with Ok(None), no connection
\* and exit code 0; a successful connect is followed by exactly one request
\* and at most one response on that connection.
C12_StopNeverSpawns ==
  \A c \in Procs :
    ckind[c] = "stop" =>
      /\ cpc[c] \in {"idle", "connect", "write", "read", "done"}
      /\ spawns[c] = 0 /\ dpc[c] = "none" /\ preexisting[c] = 0
      /\ sockFile # c
      /\ cres[c] = "not_running" =>
            conn[c] = NoConn /\ cpc[c] = "done" /\ exit_code(ckind[c], Exchanged(c)) = 0
      /\ cres[c] \in {"ok", "resp_err"} =>
            /\ conn[c].reqSent /\ conn[c].nresp = 1 /\ Len(conn[c].got) = 1
            /\ exit_code(ckind[c], Exchanged(c)) = 0
      /\ conn[c].nresp <= 1

\* C12 witness: a stop found nothing to connect to and is done, while another
\* process has a daemon that has not bound its socket yet.
C12_Witness ==
  \E c \in Procs :
    /\ ckind[c] = "stop" /\ cpc[c] = "done" /\ cres[c] = "not_running"
    /\ \E d \in Procs : Alive(d) /\ ~Listening(d)

\* C12 witness, connected case: a stop was served and got its one response.
C12_WitnessServed ==
  \E c \in Procs : ckind[c] = "stop" /\ cpc[c] = "done" /\ cres[c] = "ok"

\* Positions of run inside its accept loop.
LoopPcs == {"accept", "read", "handle", "write"}

\* C13: when the daemon is done with a command other than Stop whose Response
\* is an error (an engine error or the no-page rejection), its next position
\* is accept, with its socket file in place; and the daemon leaves the accept
\* loop only from the write step of a Stop or from a failed accept.
C13_FailureKeepsLoop ==
  [][\A d \in Procs :
       /\ (dpc[d] = "write" /\ ~resp[d].ok /\ ~is_stop[d] /\ dpc'[d] # "write")
            => (dpc'[d] = "accept" /\ sockFile' = d)
       /\ (dpc[d] \in LoopPcs /\ dpc'[d] \notin LoopPcs)
            => \/ dpc[d] = "write" /\ is_stop[d]
               \/ dpc[d] = "accept" /\ dpc'[d] = "failing"]_vars

\* C13 witness: the daemon is back in accept after an Open that failed in the
\* engine and a command that was rejected for want of a page.
C13_Witness ==
  \E d \in Procs :
    /\ dpc[d] = "accept" /\ sockFile = d
    /\ \E c1, c2 \in Procs :
         /\ conn[c1].d = d /\ conn[c1].herr # <<>> /\ conn[c1].got # <<>>
         /\ conn[c2].d = d /\ conn[c2].got = <<ResponseErr(NO_PAGE_OPEN)>>

\* C14: when handle_command returned an error for a request, the Response the
\* daemon holds for it, and the one the client gets on that connection, is
\* ok=false with no value and clean_error of the raw text as its error; the
\* daemon goes on to write it, and only a client that was killed before the
\* write is left without it.
C14_ErrorsBecomeResponses ==
  \A c \in Procs :
    conn[c].herr # <<>> =>
      LET d == conn[c].d
          r == [ok |-> FALSE, value |-> <<>>, error |-> <<clean_error(conn[c].herr[1])>>]
      IN /\ conn[c].handled
         /\ cur[d] = c => (dpc[d] = "write" /\ resp[d] = r)
         /\ conn[c].got # <<>> => conn[c].got = <<r>>
         /\ cur[d] # c => conn[c].dclosed /\ (conn[c].got # <<>> \/ cres[c] = "killed")

\* C14 witness: a client has read the error Response of a command that failed
\* in the engine, and its text is not the raw text.
C14_Witness ==
  \E c \in Procs :
    /\ conn[c].herr # <<>>
    /\ cres[c] = "resp_err"
    /\ conn[c].got[1].error # conn[c].herr
    /\ conn[c].got[1].error = <<clean_error(conn[c].herr[1])>>

\* The daemon has written the reply to c's Stop.
StopServed(c) == ccmd[c] = "Stop" /\ conn[c].got # <<>>

\* A daemon leaves the loop only after the reply to a Stop has been written,
\* and the connection of a served Stop is the last one the daemon accepted.
StopEndsLoop ==
  /\ \A d \in Procs :
       dpc[d] = "cleanup" =>
         /\ respOrder[d] # <<>>
         /\ StopServed(respOrder[d][Len(respOrder[d])])
  /\ \A c \in Procs :
       StopServed(c) =>
         LET d == conn[c].d
         IN /\ acceptOrder[d][Len(acceptOrder[d])] = c
            /\ dpc[d] \in {"cleanup", "exited"}

\* C15 as stated: every reply to a Stop has ok=true, the daemon leaves the
\* loop only after that reply is written, and accepts nothing after it.
C15_StopAnsweredOk ==
  /\ \A c \in Procs : StopServed(c) => conn[c].got[1].ok
  /\ StopEndsLoop

\* C15 amended: the reply to a Stop has ok=true unless the session records a
\* video and finalizing it failed, in which case it is the ok=false Response
\* of that failure; either way the daemon leaves the loop only after the reply
\* is written, and accepts nothing after it.
C15_StopAnswered ==
  /\ \A c \in Procs :
       StopServed(c) =>
         \/ conn[c].got = <<ResponseOkEmpty>>
         \/ /\ conn[c].hadVideo
            /\ \/ conn[c].got = <<ResponseErr(FFMPEG_FAILED)>>
               \/ /\ conn[c].herr # <<>>
                  /\ conn[c].got = <<ResponseErr(clean_error(conn[c].herr[1]))>>
  /\ StopEndsLoop

\* C15 witness: a Stop on a video session got the ok=false reply of a failed
\* transcode, the daemon has exited and its socket file is gone.
C15_Witness ==
  \E c \in Procs :
    /\ StopServed(c)
    /\ conn[c].got = <<ResponseErr(FFMPEG_FAILED)>>
    /\ dpc[conn[c].d] = "exited"
    /\ sockFile = 0

\* C15 witness, plain case: a Stop got the empty ok reply and the daemon exited.
C15_WitnessOk ==
  \E c \in Procs :
    StopServed(c) /\ conn[c].got = <<ResponseOkEmpty>> /\ dpc[conn[c].d] = "exited"

\* The envelope invariant of a Response.
Envelope(r) ==
  /\ ~(r.value # <<>> /\ r.error # <<>>)
  /\ ~r.ok => (r.error # <<>> /\ r.value = <<>>)
  /\ r.ok => r.error = <<>>

\* C16: every Response a client has been sent, and every Response the daemon
\* holds for writing, has value and error never both populated, an error and
\* no value when ok=false, and no error when ok=true.
C16_Envelope ==
  /\ \A c \in Procs : \A i \in 1..Len(conn[c].got) : Envelope(conn[c].got[i])
  /\ \A d \in Procs : dpc[d] = "write" => Envelope(resp[d])

\* C16 witness: one client was sent an ok=true Response with a value after
\* another was sent the empty one.
C16_Witness ==
  \E c1, c2 \in Procs :
    /\ conn[c1].got = <<ResponseOkEmpty>>
    /\ conn[c2].got # <<>> /\ conn[c2].got[1].ok /\ conn[c2].got[1].value # <<>>

\* C16 witness, failure side: a client was sent an ok=false Response.
C16_WitnessErr ==
  \E c \in Procs : conn[c].got # <<>> /\ ~conn[c].got[1].ok /\ conn[c].got[1].error # <<>>

\* The selectors whose answer in req is not a visible match, in list order.
RECURSIVE NotVisibleIn(_, _)
NotVisibleIn(sels, req) ==
  IF sels = <<>> \/ req = <<>> THEN <<>>
  ELSE (IF req[1] # "visible" THEN <<sels[1]>> ELSE <<>>)
       \o NotVisibleIn(Tail(sels), Tail(req))

AllVisible(obs, sels) ==
  Len(obs) = Len(sels) /\ \A k \in 1..Len(obs) : obs[k] = "visible"

WaitDone(cmd) == wpc = "done" /\ winput.cmd = cmd

\* C17: wait_all returns success exactly when one iteration of its loop found
\* every selector a visible match, and returns at the end of that iteration;
\* when it fails with its timeout error, the time elapsed exceeds the timeout
\* and the error lists, in order, exactly the selectors that were not a
\* visible match when asked again after the timeout.
C17_WaitAll ==
  /\ (winput.cmd = "WaitAll" /\ Running /\ whist.everAll)
       => (wpc = "check" /\ wloc.all_visible /\ AllVisible(wloc.obs, winput.sels))
  /\ WaitDone("WaitAll") =>
       /\ (wres.kind = "ok") <=> whist.everAll
       /\ wres.kind = "ok" => AllVisible(wloc.obs, winput.sels)
       /\ (wres.kind = "err" /\ wres.msg \notin EngineErrs) =>
            /\ welapsed > winput.timeout
            /\ Len(wloc.req) = Len(winput.sels)
            /\ wres.msg = StillMissingMsg(winput.timeout,
                                          NotVisibleIn(winput.sels, wloc.req))
       /\ (wres.kind = "err" /\ wres.msg \in EngineErrs) =>
            /\ welapsed > winput.timeout
            /\ wloc.req[Len(wloc.req)] \in {"count_err", "vis_err"}

\* C17 witness: wait_all on a, b timed out after more than one iteration; asked
\* again, a was visible and b was not, and the error names only b.
C17_Witness ==
  /\ WaitDone("WaitAll")
  /\ winput.sels = <<"a", "b">>
  /\ whist.polls > 2
  /\ wloc.req = <<"visible", "hidden">>
  /\ wres.msg = StillMissingMsg(winput.timeout, <<"b">>)

\* C17 witness, success side: wait_all on a, b succeeded in a later iteration.
C17_WitnessOk ==
  /\ WaitDone("WaitAll")
  /\ Len(winput.sels) = 2 /\ whist.polls > 2 /\ wres.kind = "ok"

\* C18: wait_any returns success exactly when some selector was found to be a
\* visible match, with the selector it returns being that one, which is the
\* first in list order in that iteration; its timeout error comes only after
\* the time elapsed exceeds the timeout, with no selector ever found visible,
\* and lists every given selector in the given order.
C18_WaitAny ==
  /\ (winput.cmd = "WaitAny" /\ Running) => ~whist.everVis
  /\ WaitDone("WaitAny") =>
       /\ (wres.kind = "ok") <=> whist.everVis
       /\ wres.kind = "ok" =>
            LET k == Len(wloc.obs)
            IN /\ k >= 1 /\ wloc.obs[k] = "visible"
               /\ \A j \in 1..(k - 1) : wloc.obs[j] # "visible"
               /\ wres.value = <<winput.sels[k]>>
       /\ wres.kind = "err" =>
            /\ welapsed > winput.timeout
            /\ whist.polls >= Len(winput.sels)
            /\ wres.msg = <<"Timeout ", ToString(winput.timeout),
                            "ms exceeded. None matched: [">>
                          \o join_comma(winput.sels) \o <<"]">>

\* C18 witness: wait_any on a, b returned b after more than one iteration,
\* with a hidden and b visible in the last one.
C18_Witness ==
  /\ WaitDone("WaitAny")
  /\ winput.sels = <<"a", "b">>
  /\ whist.polls > 2
  /\ wloc.obs = <<"hidden", "visible">>
  /\ wres = [kind |-> "ok", value |-> <<"b">>, msg |-> <<>>]

\* C18 witness, timeout side: the error lists both selectors.
C18_WitnessTimeout ==
  /\ WaitDone("WaitAny")
  /\ wres.msg = NoneMatchedMsg(winput.timeout, <<"b", "a">>)

\* C19: wait succeeds only on a poll that found the selector a visible match;
\* it fails only with the timeout error naming the selector, only when the time
\* elapsed exceeds the timeout, and never before it has polled at least once.
C19_Wait ==
  /\ (winput.cmd = "Wait" /\ Running) => ~whist.everVis
  /\ WaitDone("Wait") =>
       /\ wres.kind \in {"ok", "err"}
       /\ (wres.kind = "ok") <=> (wloc.obs = <<"visible">>)
       /\ wres.kind = "err" =>
            /\ ~whist.everVis
            /\ whist.polls >= 1
            /\ welapsed > winput.timeout
            /\ wres.msg = TimeoutMsg(winput.timeout, winput.sels[1])

\* C19 witness: a wait with timeout 0 failed, after polling.
C19_Witness ==
  /\ WaitDone("Wait")
  /\ winput.timeout = 0
  /\ wres.kind = "err"
  /\ whist.polls >= 1

\* C20: wait_not succeeds on a poll whose count is zero; when every poll
\* counted a match, it fails, with the timeout error naming the selector and
\* only once the time elapsed exceeds the timeout; it fails in no other case.
C20_WaitNot ==
  /\ (winput.cmd = "WaitNot" /\ wpc = "check") => wloc.obs = <<"present">>
  /\ (winput.cmd = "WaitNot" /\ Running) => whist.allPos
  /\ WaitDone("WaitNot") =>
       /\ wres.kind \in {"ok", "err"}
       /\ wloc.obs = <<"absent">> => wres.kind = "ok"
       /\ whist.allPos <=> (wres.kind = "err")
       /\ wres.kind = "err" =>
            /\ whist.polls >= 1
            /\ welapsed > winput.timeout
            /\ wres.msg = DisappearMsg(winput.sels[1])

\* C20 witness: the match was there at the first poll and gone at a later one.
C20_Witness ==
  /\ WaitDone("WaitNot")
  /\ whist.polls >= 2
  /\ wloc.obs = <<"absent">>
  /\ wres.kind = "ok"

\* C20 witness, timeout side: every poll counted a match and wait_not failed.
C20_WitnessTimeout ==
  /\ WaitDone("WaitNot")
  /\ whist.allPos /\ whist.polls >= 2 /\ wres.kind = "err"

\* ------------------------------------------------------- command handlers
\* C21: exists and count are bounded by the fixed 30-second channel timeout:
\* a count call is pending for at most CHANNEL_TIMEOUT, a command whose count
\* call never returned is answered with the failure "Timeout waiting for
\* Playwright response." naming its selector, and whenever a count call has
\* been issued the daemon gets back to accepting the next connection.
C21_CountBounded ==
  /\ [](hpc = "count" => hclock <= CHANNEL_TIMEOUT)
  /\ []((hpc = "idle" /\ hhist.stalled) =>
          /\ hcmd.cmd \in {"Exists", "Count"}
          /\ hclock = CHANNEL_TIMEOUT
          /\ hresp = ResponseErr(<<"Timeout waiting for Playwright response. ",
                                     "[selector: ", hcmd.selector, "]">>))
  /\ ((hpc = "count") ~> (hpc = "idle"))

C21_Witness ==
  /\ hpc = "idle"
  /\ hhist.stalled
  /\ hcmd.cmd = "Count"
  /\ ~hresp.ok

\* the engine's extra headers are exactly the entries of the map h
EngineHolds(h) ==
  /\ \A r \in engHeaders : r.name \in DOMAIN h /\ h[r.name] = r.value
  /\ \A n \in DOMAIN h : \E r \in engHeaders : r.name = n /\ r.value = h[n]
  /\ Cardinality(engHeaders) = Cardinality(DOMAIN h)

\* C22: Header and HeaderClear replace the engine's extra headers by the
\* daemon's whole map: once the latest Header or HeaderClear has succeeded the
\* engine holds exactly State.headers, and as long as every such command has
\* succeeded both equal the last value set for each name since the most recent
\* clear (nothing after a clear).
C22_HeadersReplace ==
  /\ (hpc \in {"idle", "done", "stopped"} /\ hhist.lastOk) => EngineHolds(headers)
  /\ (hpc \in {"idle", "done", "stopped"} /\ ~hhist.failed) =>
       /\ DOMAIN headers = DOMAIN hhist.ref
       /\ \A n \in DOMAIN headers : headers[n] = hhist.ref[n]
       /\ EngineHolds(hhist.ref)

C22_Witness ==
  /\ hpc = "idle"
  /\ ~hhist.failed
  /\ hhist.lastOk
  /\ hcmd.cmd = "Header" /\ hcmd.name = "X-A" /\ hcmd.value = "2"
  /\ DOMAIN headers = HeaderNames
  /\ engHeaders = {[name |-> "X-A", value |-> "2"], [name |-> "X-B", value |-> "1"]}

C22_WitnessClear ==
  /\ hpc = "idle"
  /\ ~hhist.failed
  /\ hcmd.cmd = "HeaderClear"
  /\ DOMAIN headers = {}
  /\ engHeaders = {}

Finalized(fin) == hpc \in {"done", "stopped"} /\ hcmd.cmd = "Stop" /\ hhist.fin = fin

\* C23: when the transcoder exits non-zero, Stop is answered with the error
\* naming the exit status and the capture directory with its raw file stays
\* in place; the directory is removed only after a successful transcode or
\* copy.
C23_ArtifactsKeptOnFailure ==
  /\ Finalized("ffmpeg_nonzero") =>
       /\ hresp = ResponseErr(FFMPEG_FAILED)
       /\ tmpdir.exists /\ tmpdir.raw
  /\ (hpc \in {"done", "stopped"} /\ hhist.rm) => hhist.fin \in {"copied", "transcoded"}

\* C24: when finalization finds no raw .webm file in the capture directory,
\* Stop is answered with a failure of its own ("no video file found").
C24_NoRawFileFails ==
  Finalized("no_raw") =>
    /\ ~hresp.ok
    /\ hresp.error = <<<<"no video file found">>>>

\* ---------------------------------------------------------- pure functions
\* the response the exchange returned, if any
Reply(kind, r) ==
  IF ~r.is_ok THEN <<>> ELSE IF kind = "stop" THEN r.val ELSE <<r.val>>

Succeeded(reply) == reply # <<>> /\ reply[1].ok /\ reply[1].value # <<"false">>

C25_WitnessStop ==
  /\ pfn = "exit_code"
  /\ pin.kind = "stop"
  /\ pin.r = Ok(<<ResponseErr(IO_ERROR)>>)
  /\ pout = 0

\* the message starts with something strip_prefixes removes
StripsAtHead(m) ==
  /\ m # <<>>
  /\ \/ m[1] \in {"Protocol error: ", "Protocol error ", "Error: ", "strict mode violation: "}
     \/ m[1] = "(" /\ FirstIdx(m, ": ") # 0

MultipleElements(m) == FirstIdx(m, "resolved to") # 0 /\ FirstIdx(m, "elements") # 0

\* a single-line message the normalizer has nothing to do on
AlreadyClean(m) ==
  /\ \A i \in 1..Len(m) : m[i] \notin {"\n", " \n "}
  /\ ~StripsAtHead(m)
  /\ m = <<>> \/ m[1] # "    at "
  /\ trim_end(m) = m
  /\ selector_suffix(m) = <<>> \/ m[Len(m)] = "]"
  /\ ~MultipleElements(m)

C26_WitnessClean ==
  /\ pfn = "clean_error"
  /\ pin.e = <<"x", "[selector: ", "]">>
  /\ AlreadyClean(pin.e)
  /\ pout[1] = pin.e

C26_WitnessHint ==
  /\ pfn = "clean_error"
  /\ Len(pout) = 2
  /\ pin.sel = <<"a">>
  /\ MultipleElements(pout[1])
  /\ Len(pout[1]) > Len(pin.e)
  /\ pout[2] = pout[1]

EndsWith(m, t) == Len(m) >= Len(t) /\ SubSeq(m, Len(m) - Len(t) + 1, Len(m)) = t

\* C27: whenever the normalized message says a selector resolved to several
\* elements, it ends with the fixed hint and the hint's example holds the
\* selector of the failed command verbatim.
C27_HintNamesSelector ==
  (pfn = "clean_error" /\ pin.sel # <<>> /\ MultipleElements(pout[1])) =>
    EndsWith(pout[1], HINT \o pin.sel \o <<" >> nth=0\"">>)

\* C28: requires_page is false exactly for Open, Stop, Header, HeaderClear and
\* Viewport and true for every other variant, the three cookie commands
\* included.
C28_RequiresPage ==
  pfn = "requires_page" =>
    /\ pin \in Variants
    /\ pout = FALSE <=> pin \in {"Open", "Stop", "Header", "HeaderClear", "Viewport"}
    /\ pin \in {"Cookie", "CookieList", "CookieClear"} => pout = TRUE

C28_Witness ==
  /\ pfn = "requires_page"
  /\ pin = "CookieList"
  /\ pout = TRUE

C28_WitnessExempt ==
  /\ pfn = "requires_page"
  /\ pin = "Viewport"
  /\ pout = FALSE

\* --------------------------------------------------------- ready sentinel
PrintsReady(d) ==
  /\ sentinels'[d] # sentinels[d]
  /\ sentinels'[d][Len(sentinels'[d])] = "ready"

\* C29: the daemon prints the ready sentinel only once the engine is launched,
\* the page acquired and its listener bound to the socket path, and never
\* prints both a ready and an error sentinel; so a client that has read the
\* ready line and goes on to connect finds the daemon listening at the path
\* for as long as that daemon runs.
C29_ReadyAfterBind ==
  /\ [][\A d \in Procs : PrintsReady(d) =>
           /\ dpc[d] = "bound"
           /\ sockFile = d
           /\ sentinels[d] = <<>>
           /\ Listening(d)']_vars
  /\ [](\A d \in Procs : ~("ready" \in Range(sentinels[d]) /\ "error" \in Range(sentinels[d])))
  /\ [](\A c \in Procs :
          (sd_res[c].kind = "ok" /\ cpc[c] = "connect" /\ Alive(c)) =>
             /\ "ready" \in Range(sentinels[c])
             /\ sockFile = c
             /\ Connectable(sockFile))

C29_Witness ==
  /\ sd_res[1].kind = "ok"
  /\ cpc[1] = "connect"
  /\ sentinels[1] = <<"ready">>
  /\ Connectable(sockFile)

\* ------------------------------------------------------- polling deadlines
TimedOut == wpc = "done" /\ wres.kind = "err" /\ wres.msg \notin EngineErrs

NamesAll(msg, sels) == \A i \in 1..Len(sels) : sels[i] \in Range(msg)

\* C30 as stated: every polling operation ends in success or in a timeout
\* failure whose message names its selector(s) and the timeout in milliseconds.
C30_TimeoutNamesAll ==
  wpc = "done" =>
    \/ wres.kind = "ok"
    \/ /\ wres.kind = "err"
       /\ NamesAll(wres.msg, winput.sels)
       /\ \E i \in 1..Len(wres.msg) : wres.msg[i] = ToString(winput.timeout)

\* C30: every polling loop measures its deadline from its own start and ends
\* after at most timeout + 2 rounds of polls, with success or, once more than
\* the timeout has elapsed since that start, with its timeout failure: Wait,
\* WaitAny and ComputedStyle name their selector(s) and the timeout in
\* milliseconds, WaitAll names the timeout and only the selectors still
\* missing, WaitNot names its selector and no timeout; WaitAll can instead
\* fail with the engine's error when its final re-query fails.
C30_PollingTerminates ==
  /\ (wpc # "idle") => whist.polls <= (winput.timeout + 2) * Len(winput.sels)
  /\ TimedOut => welapsed > winput.timeout
  /\ wpc = "done" =>
       \/ wres.kind = "ok"
       \/ /\ wres.kind = "err" /\ wres.msg \in EngineErrs /\ winput.cmd = "WaitAll"
       \/ /\ TimedOut
          /\ CASE winput.cmd = "Wait" ->
                    wres.msg = <<"Timeout ", ToString(winput.timeout),
                                 "ms exceeded. [selector: ", winput.sels[1], "]">>
                 [] winput.cmd = "WaitAny" ->
                    /\ NamesAll(wres.msg, winput.sels)
                    /\ wres.msg[2] = ToString(winput.timeout)
                 [] winput.cmd = "WaitAll" ->
                    /\ wres.msg[2] = ToString(winput.timeout)
                    /\ \A i \in 1..Len(winput.sels) :
                         winput.sels[i] \in Range(wres.msg) =>
                           winput.sels[i] \in Range(wloc.missing)
                 [] winput.cmd = "WaitNot" ->
                    wres.msg = <<"Timeout waiting for '", winput.sels[1], "' to disappear">>
                 [] OTHER ->
                    wres.msg = <<"Timeout ", ToString(winput.timeout),
                                 "ms: element not found [", winput.sels[1], "]">>

C30_Witness ==
  /\ wpc = "done"
  /\ winput.cmd = "ComputedStyle"
  /\ winput.timeout = 1
  /\ wres.kind = "err"
  /\ whist.polls = 3

C30_WitnessWaitNot ==
  /\ wpc = "done"
  /\ winput.cmd = "WaitNot"
  /\ wres.kind = "err"
  /\ ToString(winput.timeout) \notin Range(wres.msg)


\* C31: across any sequence of Opens the console init script is installed
\* successfully at most once: an Open installs it only while the flag is
\* unset, and the flag is set as soon as an install succeeded, whether or not
\* the navigation that follows fails.
C31_InstalledOnce ==
  /\ ~hhist.again
  /\ console_initialized <=> hhist.installed

\* An Open succeeded after an earlier Open's navigation had failed.
C31_Witness ==
  /\ hpc = "done" /\ hcmd.cmd = "Open" /\ hres.is_ok
  /\ hhist.navFailed /\ hhist.installed

\* C32: every Command variant of the protocol, VideoStart and VideoStop
\* included, is taken by an arm of handle_command.
C32_EveryVariantMatched == pfn = "handle_command" => pout # "none"

\* C33: an eval script whose result is a string is answered with that same
\* string value, whatever its content.
C33_StringStaysString ==
  (pfn = "eval" /\ pin.r.t = "string") => pout = pin.r

\* C34: once a Stop has been read and handed to its handler, the daemon leaves
\* the accept loop: after it is done with the Stop's connection, whether or not
\* the reply could be written, it is never back at accept or serving a request.
C34_StopAlwaysLeaves ==
  \A c \in Procs :
    (ccmd[c] = "Stop" /\ conn[c].handled /\ conn[c].dclosed) =>
      dpc[conn[c].d] \notin {"accept", "read", "handle", "write"}

\* Connection c is the one in service at daemon d, its client has sent nothing
\* and keeps its end open: read_line at line 172 cannot return.
HeldBy(d, c) ==
  /\ dpc[d] = "read" /\ cur[d] = c
  /\ conn[c].open /\ ~conn[c].reqSent

\* Client c has sent its request to daemon d and waits in the listener's queue.
Queued(d, c) ==
  /\ conn[c].d = d /\ conn[c].open /\ conn[c].reqSent
  /\ \E i \in 1..Len(backlog[d]) : backlog[d][i] = c

\* C35: a client that connects and sends no request line cannot keep the
\* daemon from serving later clients: the daemon is never held in the read of
\* a silent connection while another client's request waits to be accepted.
C35_SilentClientBlocksNobody ==
  \A d \in Procs : \A c1 \in Procs : \A c2 \in Procs :
    ~(HeldBy(d, c1) /\ Queued(d, c2))

\* C36: a daemon that fails before the ready line has printed exactly one
\* error sentinel by the time run returns.
C36_StartupFailureDiagnosed ==
  \A d \in Procs :
    (dpc[d] \in {"failing", "exited"} /\ \A i \in 1..Len(sentinels[d]) : sentinels[d][i] # "ready")
      => sentinels[d] = <<"error">>

\* C37: a Header or HeaderClear that fails leaves State.headers as it was, so
\* between commands the map is exactly the header set the engine last accepted.
C37_HeadersAsAccepted ==
  hpc \in {"idle", "done", "stopped"} =>
    /\ EngineHolds(headers)
    /\ DOMAIN headers = DOMAIN hhist.ref
    /\ \A n \in DOMAIN headers : headers[n] = hhist.ref[n]

\* C38: page_opened is false when the daemon becomes ready; it changes only
\* to true, and only in the step of an Open whose handler succeeded: a failed
\* Open and every other command leave it as it is, and nothing resets it.
C38_PageOpenedMonotone ==
  [][\A d \in Procs :
       /\ (dpc[d] = "bound" /\ dpc'[d] = "accept") => ~page_opened'[d]
       /\ page_opened'[d] # page_opened[d] =>
            /\ page_opened'[d]
            /\ \/ /\ dpc[d] = "handle" /\ ccmd[cur[d]] = "Open"
                  /\ resp'[d].ok
               \/ /\ d = 1 /\ hpc = "handle" /\ hcmd.cmd = "Open"
                  /\ hres'.is_ok]_vars

\* With the page open, a later Open failed in its handler and the page is
\* still open.
C38_Witness ==
  \E d \in Procs : \E c \in Procs :
    /\ conn[c].d = d /\ ccmd[c] = "Open"
    /\ conn[c].pageAtGate /\ conn[c].herr # <<>>
    /\ dpc[d] = "accept"
    /\ page_opened[d]

\* A command other than Open was handled before any page was open and the
\* page is still not open.
C38_WitnessOther ==
  \E d \in Procs : \E c \in Procs :
    /\ conn[c].d = d /\ ccmd[c] = "Header"
    /\ conn[c].handled /\ conn[c].nresp = 1 /\ conn[c].got[1].ok
    /\ ~page_opened[d]

\* C39: wait_not returns success only when the engine's count of the poll
\* that ended the wait was zero; a count that failed is not taken as the
\* element having disappeared.
C39_GoneMeansCountedZero ==
  (wpc = "done" /\ winput.cmd = "WaitNot" /\ wres.kind = "ok") =>
    wloc.obs = <<"absent">>

C40_WitnessStop ==
  \E c \in Procs :
    /\ ccmd[c] = "Stop" /\ conn[c].nresp = 1
    /\ dpc[conn[c].d] = "exited"
    /\ sockFile = 0

====
